---------------------------- MODULE Spec2Model ----------------------------
(***************************************************************************)
(* A model of oneShotTranscoder: the Apple TV compatibility classifier     *)
(* (transcoder/compatibility.py), the bitrate planner (transcoder/utils.py)*)
(* the per-file pipeline and the batch loop (transcoder/transcode.py,      *)
(* transcoder/main.py) and the encoder monitor (transcoder/ffmpeg.py).     *)
(*                                                                         *)
(* Each subsystem has its own variables, its own Init and Next and its own *)
(* specification; a specification keeps the other subsystems' variables at *)
(* their idle values.                                                      *)
(***************************************************************************)
EXTENDS Integers, Sequences, FiniteSets, TLC

VARIABLES
    \* ---- compatibility classifier (one run of check_apple_tv_compatibility)
    cpc,          \* position in the sequence of checks
    input_ext,    \* input_path.suffix, as written on disk
    probe_data,   \* ffprobe data: a sequence of stream records
    result,       \* the AppleTVCompatibility object being built
    prev_status,  \* overall_status before the check that ran last
    \* ---- bitrate planner (one call of calculate_target_bitrate)
    br_pc,        \* "call" before the call, "returned" after it
    br_args,      \* duration_seconds, target_size_mb_per_hour, audio_bitrate_kbps
    br_ret,       \* the value returned, or the exception raised
    \* ---- batch run (main, transcode_all, transcode_file)
    args,         \* the parsed command line
    video_files,  \* the files of the batch, in processing order
    mpc,          \* position in main / transcode_all
    rewrap_mode,  \* "None", "True" or "False"
    file_idx,     \* index of the file whose transcode_file call is the latest
    success_count,\* the loop's counter
    calls,        \* number of transcode_file calls made for each file
    returned_true,\* number of transcode_file calls that returned True
    reported,     \* the count of the "Completed:" line, -1 before it
    tpc,          \* position in transcode_file
    exc,          \* the exception being propagated, "" if none
    ret,          \* the value transcode_file is returning
    temp_dirs,    \* transcode_file's list of directories to clean up
    fs_temp,      \* temporary directories that exist on disk
    cover_image_path,    \* "None" or "converted"
    bitmap_streams, \* the bitmap subtitle streams under conversion
    track,        \* index of the stream under conversion
    generated_subtitles, \* transcode_file's list of OCR subtitles (stream numbers)
    generated,    \* convert_bitmap_subtitles' list of converted streams
    cmd,          \* the encoder command built for the file
    running,      \* files whose encoder process is running
    \* ---- encoder monitor (one call of run_ffmpeg_with_progress)
    mon_pc,       \* position of the main thread
    process,      \* the encoder process: running or exited, and its exit code
    stdout_pipe,  \* progress lines written and not yet read
    stderr_pipe,  \* stderr lines written and not yet read
    stdout_queue, \* lines put by the stdout reader thread
    stderr_queue, \* lines put by the stderr reader thread
    stdout_thread,\* "reading" or "finished"
    stderr_thread,\* "reading" or "finished"
    error_lines,  \* the lines recorded for the caller
    faststart_message_shown,
    written,      \* every line the encoder wrote to standard error
    progress_written, \* number of progress lines the encoder wrote
    \* ---- metadata detector (one call of detect_metadata, or of the two
    \*      functions of metadata.py that transcode_file calls)
    source,       \* the file name (Path.name), a sequence of characters
    manual_pattern, \* the filename template, None if there is none
    media_type_override, \* "None", "show" or "movie"
    pattern_module, \* the module whose build_pattern_regex is called
    dpc,          \* position in the call
    index,        \* build_pattern_regex: the index into the template
    buffer,       \* build_pattern_regex: the pattern built so far
    strategies,   \* the detection strategies still to try
    consulted,    \* the detection strategies tried so far
    manual_detection, \* detect_metadata: the result of match_manual_pattern
    detection,    \* the value returned
    raised,       \* the exception raised, "" if none
    \* ---- encoder selection (one call of detect_gpu_encoder)
    epc,          \* position in the call
    bundled_path, \* the bundled ffmpeg binary, "None" if there is none
    system_path,  \* the ffmpeg binary on the PATH, "None" if there is none
    ffmpeg_path,  \* the local of detect_gpu_encoder
    probes,       \* the outcomes of the "ffmpeg -encoders" runs so far
    encoder_ret,  \* the value returned, "None" before the return
    encoder_raised, \* the exception raised, "" if none
    \* ---- language codes (normalize_language_tag, then iso6392_to_iso6391)
    lpc,          \* position in the two calls
    language_tag, \* the language tag of the stream, None if it has none
    babelfish,    \* the resolver: installed or not, and the codes it recognises
    iso6392,      \* the value returned by normalize_language_tag
    iso6391,      \* the value returned by iso6392_to_iso6391
    resolver_calls, \* the calls made on the resolver, in order
    \* ---- output paths (get_output_path for each file of a batch)
    opc,          \* position in the batch and in the call
    pending,      \* the names of the input files still to process
    existing,     \* the files on disk
    target_dir,   \* "None", or the directory given with --targetDir
    overwrite,    \* the overwrite argument of get_output_path
    input_path,   \* the file being processed
    base_path,    \* get_output_path: the path with the suffix .mp4
    counter,      \* get_output_path: the number tried, 0 outside the loop
    output_path,  \* the value returned
    \* ---- the encoder's command line (build_transcode_command and
    \*      build_rewrap_command)
    kpc,          \* "build" before the call, then the mode of the command built
    subtitle_streams, \* the text subtitle streams of the source
    gen_subs,     \* the generated subtitle files
    cover_path,   \* the cover image, None if there is none
    ffmpeg_cmd    \* the list returned

compatVars == <<cpc, input_ext, probe_data, result, prev_status>>
bitrateVars == <<br_pc, br_args, br_ret>>
mainVars == <<args, video_files, mpc, rewrap_mode, file_idx, success_count, calls,
              returned_true, reported>>
fileVars == <<tpc, exc, ret, temp_dirs, fs_temp, cover_image_path, bitmap_streams, track,
              generated, generated_subtitles, cmd, running>>
batchVars == <<mainVars, fileVars>>
monitorVars == <<mon_pc, process, stdout_pipe, stderr_pipe, stdout_queue, stderr_queue,
                 stdout_thread, stderr_thread, error_lines, faststart_message_shown,
                 written, progress_written>>

detectVars == <<source, manual_pattern, media_type_override, pattern_module, dpc, index,
                buffer, strategies, consulted, manual_detection, detection, raised>>

encoderVars == <<epc, bundled_path, system_path, ffmpeg_path, probes, encoder_ret, encoder_raised>>

languageVars == <<lpc, language_tag, babelfish, iso6392, iso6391, resolver_calls>>

outputVars == <<opc, pending, existing, target_dir, overwrite, input_path, base_path, counter, output_path>>

commandVars == <<kpc, subtitle_streams, gen_subs, cover_path, ffmpeg_cmd>>

vars == <<compatVars, bitrateVars, batchVars, monitorVars, detectVars, encoderVars, languageVars, outputVars, commandVars>>

\* the variables of the other subsystems, which a subsystem leaves alone
notCompat == <<bitrateVars, batchVars, monitorVars, detectVars, encoderVars, languageVars, outputVars, commandVars>>
notBitrate == <<compatVars, batchVars, monitorVars, detectVars, encoderVars, languageVars, outputVars, commandVars>>
notBatch == <<compatVars, bitrateVars, monitorVars, detectVars, encoderVars, languageVars, outputVars, commandVars>>
notMonitor == <<compatVars, bitrateVars, batchVars, detectVars, encoderVars, languageVars, outputVars, commandVars>>
notDetect == <<compatVars, bitrateVars, batchVars, monitorVars, encoderVars, languageVars, outputVars, commandVars>>
notEncoder == <<compatVars, bitrateVars, batchVars, monitorVars, detectVars, languageVars, outputVars, commandVars>>
notLanguage == <<compatVars, bitrateVars, batchVars, monitorVars, detectVars, encoderVars, outputVars, commandVars>>
notOutput == <<compatVars, bitrateVars, batchVars, monitorVars, detectVars, encoderVars, languageVars, commandVars>>
notCommand == <<compatVars, bitrateVars, batchVars, monitorVars, detectVars, encoderVars, languageVars, outputVars>>

(***************************************************************************)
(* Strings.  Names that the code only compares are TLA+ strings, and       *)
(* str.lower() is the table of the names the model uses.  A pixel format   *)
(* is searched for substrings, so it is a sequence of characters.          *)
(***************************************************************************)
NoValue == "<none>"

LowerTable ==
    ( ".MKV" :> ".mkv" @@ ".MOV" :> ".mov" @@ ".MP4" :> ".mp4"
   @@ "HEVC" :> "hevc" @@ "H264" :> "h264" @@ "AVC1" :> "avc1"
   @@ "High" :> "high" @@ "Main" :> "main" @@ "Main 10" :> "main 10"
   @@ "High 10" :> "high 10" @@ "Rext" :> "rext"
   @@ "AAC" :> "aac" @@ "DTS" :> "dts" @@ "EAC3" :> "eac3" @@ "TrueHD" :> "truehd" )

lower(s) == IF s \in DOMAIN LowerTable THEN LowerTable[s] ELSE s

LowerChar ==
    ( "A" :> "a" @@ "B" :> "b" @@ "C" :> "c" @@ "D" :> "d" @@ "E" :> "e" @@ "F" :> "f"
   @@ "G" :> "g" @@ "H" :> "h" @@ "I" :> "i" @@ "J" :> "j" @@ "K" :> "k" @@ "L" :> "l"
   @@ "M" :> "m" @@ "N" :> "n" @@ "O" :> "o" @@ "P" :> "p" @@ "Q" :> "q" @@ "R" :> "r"
   @@ "S" :> "s" @@ "T" :> "t" @@ "U" :> "u" @@ "V" :> "v" @@ "W" :> "w" @@ "X" :> "x"
   @@ "Y" :> "y" @@ "Z" :> "z" )

lowerChars(cs) ==
    [i \in 1..Len(cs) |-> IF cs[i] \in DOMAIN LowerChar THEN LowerChar[cs[i]] ELSE cs[i]]

\* Python's `sub in s` for strings
Contains(sub, cs) ==
    \E i \in 0..(Len(cs) - Len(sub)) : SubSeq(cs, i + 1, i + Len(sub)) = sub

(***************************************************************************)
(* compatibility.py: constants.  Levels are in hundredths (4.2 is 420).    *)
(***************************************************************************)
COMPATIBLE == "compatible"
NEEDS_REMUX == "needs_remux"
NEEDS_TRANSCODE == "needs_transcode"

APPLE_TV_SUPPORTED_VIDEO_CODECS == {"h264", "avc1", "hevc", "h265", "hvc1", "hev1"}
APPLE_TV_SUPPORTED_AUDIO_CODECS == {"aac", "ac3", "eac3", "ec-3", "alac", "mp3"}
APPLE_TV_SUPPORTED_CONTAINERS == {".mp4", ".m4v", ".mov"}
H264_CODECS == {"h264", "avc1"}
HEVC_CODECS == {"hevc", "h265", "hvc1", "hev1"}
H264_SUPPORTED_PROFILES == {"baseline", "main", "high", "constrained baseline"}
HEVC_SUPPORTED_PROFILES == {"main", "main 10", "main10"}

H264_MAX_LEVEL_1080P == 420
H264_MAX_LEVEL_4K == 520
MAX_WIDTH_4K == 3840
MAX_HEIGHT_4K == 2160
MAX_FPS == 60

(***************************************************************************)
(* Probe data of the model.                                                *)
(***************************************************************************)
PIX_YUV420P     == <<"y","u","v","4","2","0","p">>
PIX_YUV420P10LE == <<"y","u","v","4","2","0","p","1","0","l","e">>
PIX_YUV420P12LE == <<"y","u","v","4","2","0","p","1","2","l","e">>
PIX_P010_UPPER  == <<"P","0","1","0","L","E">>

PixFmts == {PIX_YUV420P, PIX_YUV420P10LE, PIX_YUV420P12LE, PIX_P010_UPPER}

\* raw "level" values of ffprobe: absent, a number (in hundredths), or a
\* string that float() parses (in hundredths) or rejects
RawLevels ==
    { [kind |-> "none", h |-> 0],
      [kind |-> "num", h |-> 4200],      \* 42
      [kind |-> "num", h |-> 5000],      \* 50
      [kind |-> "num", h |-> 5100],      \* 51
      [kind |-> "num", h |-> 5200],      \* 52
      [kind |-> "num", h |-> 5300],      \* 53
      [kind |-> "num", h |-> 420],       \* 4.2
      [kind |-> "str", h |-> 4100],      \* "41"
      [kind |-> "badstr", h |-> 0] }     \* "high"

FrameRates ==
    { [kind |-> "ratio", num |-> 60, den |-> 1],       \* "60/1"
      [kind |-> "ratio", num |-> 120, den |-> 1],      \* "120/1"
      [kind |-> "ratio", num |-> 0, den |-> 0] }       \* "0/0"

VideoProfiles == {"High", "Main 10", ""}
Resolutions == { <<1920, 1080>>, <<3840, 2160>>, <<4096, 2160>> }
AudioCodecNames == {"AAC", "DTS"}
Extensions == {".mp4", ".MKV"}

MaxAudioStreams == 2

\* codec, profile and level of a video stream; the level is read for H.264 only
CodecProfileLevels ==
    { <<"h264", p, l>> : p \in VideoProfiles, l \in RawLevels }
    \cup { <<"HEVC", p, [kind |-> "none", h |-> 0]>> : p \in VideoProfiles }
    \cup { <<"mpeg2video", "Main", [kind |-> "none", h |-> 0]>> }

VideoStreams ==
    { [codec_type |-> "video", codec_name |-> cpl[1], profile |-> cpl[2], level |-> cpl[3],
       width |-> wh[1], height |-> wh[2], r_frame_rate |-> f, pix_fmt |-> x] :
        cpl \in CodecProfileLevels, wh \in Resolutions, f \in FrameRates, x \in PixFmts }

AudioStream(c) == [codec_type |-> "audio", codec_name |-> c]

AudioLists ==
    UNION { [1..n -> {AudioStream(c) : c \in AudioCodecNames}] : n \in 0..MaxAudioStreams }

(***************************************************************************)
(* compatibility.py: helpers                                               *)
(***************************************************************************)
\* the value of _get_video_stream when there is no video stream (None)
NoStream == [codec_type |-> "none"]

SelectStreams(streams, type) == SelectSeq(streams, LAMBDA s : s.codec_type = type)

get_video_stream(pd) ==
    LET vs == SelectStreams(pd, "video") IN IF vs = <<>> THEN NoStream ELSE vs[1]

get_audio_streams(pd) == SelectStreams(pd, "audio")

\* level / 10.0 when level > 10, the value itself otherwise; 0.0 when the
\* value is absent or float() rejects it
parse_h264_level(level) ==
    IF level.kind \in {"none", "badstr"} THEN 0
    ELSE IF level.h > 1000 THEN level.h \div 10 ELSE level.h

add_check(r, name, compatible) ==
    [r EXCEPT !.checks = Append(@, [name |-> name, compatible |-> compatible])]

NewResult ==
    [overall_status |-> COMPATIBLE, checks |-> <<>>, video_action |-> "copy",
     audio_action |-> "copy", container_action |-> "none", estimated_time |-> "unknown"]

ContainerCheck(r, ext) ==
    LET container_ext == lower(ext)
        container_compatible == container_ext \in APPLE_TV_SUPPORTED_CONTAINERS
        r1 == add_check(r, "Container", container_compatible)
    IN  IF ~container_compatible
        THEN [r1 EXCEPT !.container_action = "remux",
                        !.overall_status =
                            IF @ = COMPATIBLE THEN NEEDS_REMUX ELSE @]
        ELSE r1

VideoFail_action_only(r) == [r EXCEPT !.video_action = "transcode"]

VideoFail(r) == [r EXCEPT !.video_action = "transcode", !.overall_status = NEEDS_TRANSCODE]

VideoCodecCheck(r, vs) ==
    LET video_codec == lower(vs.codec_name)
        video_compatible == video_codec \in APPLE_TV_SUPPORTED_VIDEO_CODECS
        r1 == add_check(r, "Video Codec", video_compatible)
    IN  IF ~video_compatible THEN VideoFail(r1) ELSE r1

H264ProfileCheck(r, vs) ==
    LET profile == lower(vs.profile)
        profile_compatible == profile \in H264_SUPPORTED_PROFILES
        r1 == add_check(r, "H.264 Profile", profile_compatible)
    IN  IF ~profile_compatible THEN VideoFail(r1) ELSE r1

\* a level check whose bound is exclusive
LevelCompatible_exclusive(vs) ==
    LET level == parse_h264_level(vs.level)
        max_level == IF vs.width > 1920 THEN H264_MAX_LEVEL_4K ELSE H264_MAX_LEVEL_1080P
    IN  IF level > 0 THEN level < max_level ELSE TRUE

LevelCompatible(vs) ==
    LET level == parse_h264_level(vs.level)
        max_level == IF vs.width > 1920 THEN H264_MAX_LEVEL_4K ELSE H264_MAX_LEVEL_1080P
    IN  IF level > 0 THEN level <= max_level ELSE TRUE

H264LevelCheck(r, vs) ==
    LET level_compatible == LevelCompatible(vs)
        r1 == add_check(r, "H.264 Level", level_compatible)
    IN  IF ~level_compatible THEN VideoFail(r1) ELSE r1

HEVCProfileCheck(r, vs) ==
    LET profile == lower(vs.profile)
        profile_compatible == profile \in HEVC_SUPPORTED_PROFILES \/ profile = ""
        r1 == add_check(r, "HEVC Profile", profile_compatible)
    IN  IF ~profile_compatible THEN VideoFail(r1) ELSE r1

ResolutionCheck(r, vs) ==
    LET resolution_compatible == vs.width <= MAX_WIDTH_4K /\ vs.height <= MAX_HEIGHT_4K
        r1 == add_check(r, "Resolution", resolution_compatible)
    IN  IF ~resolution_compatible THEN VideoFail(r1) ELSE r1

\* fps <= MAX_FPS if fps > 0 else True, with fps = num/den, or 0 when the
\* string does not parse or the denominator is 0
FpsCompatible(f) ==
    IF f.kind = "bad" \/ f.den = 0 \/ f.num <= 0 THEN TRUE
    ELSE f.num <= MAX_FPS * f.den

FrameRateCheck(r, vs) ==
    LET fps_compatible == FpsCompatible(vs.r_frame_rate)
        r1 == add_check(r, "Frame Rate", fps_compatible)
    IN  IF ~fps_compatible THEN VideoFail(r1) ELSE r1

BitDepth(pix_fmt) ==
    IF Contains(<<"1","0">>, pix_fmt) \/ Contains(<<"p","1","0">>, lowerChars(pix_fmt))
    THEN "10-bit"
    ELSE IF Contains(<<"1","2">>, pix_fmt) \/ Contains(<<"p","1","2">>, lowerChars(pix_fmt))
    THEN "12-bit"
    ELSE "8-bit"

\* a bit-depth check without the 12-bit rule
BitDepthCompatible_no12(vs) ==
    LET bit_depth == BitDepth(vs.pix_fmt)
        video_codec == lower(vs.codec_name)
    IN  ~(bit_depth # "8-bit" /\ video_codec \notin HEVC_CODECS)

BitDepthCompatible(vs) ==
    LET bit_depth == BitDepth(vs.pix_fmt)
        video_codec == lower(vs.codec_name)
        c1 == ~(bit_depth # "8-bit" /\ video_codec \notin HEVC_CODECS)
    IN  IF bit_depth = "12-bit" THEN FALSE ELSE c1

BitDepthCheck(r, vs) ==
    LET bit_depth_compatible == BitDepthCompatible(vs)
        r1 == add_check(r, "Bit Depth", bit_depth_compatible)
    IN  IF ~bit_depth_compatible THEN VideoFail(r1) ELSE r1

\* an audio check that sets NEEDS_REMUX whatever the status was
AudioCheck_unguarded(r, streams) ==
    IF streams = <<>> THEN r
    ELSE
    LET audio_compatible == lower(streams[1].codec_name) \in APPLE_TV_SUPPORTED_AUDIO_CODECS
        r1 == add_check(r, "Audio Codec", audio_compatible)
    IN  IF ~audio_compatible
        THEN [r1 EXCEPT !.audio_action = "transcode", !.overall_status = NEEDS_REMUX]
        ELSE r1

\* an audio check that looks at every audio stream
AudioCheck_all_streams(r, streams) ==
    IF streams = <<>> THEN r
    ELSE
    LET audio_compatible ==
            \A i \in 1..Len(streams) :
                lower(streams[i].codec_name) \in APPLE_TV_SUPPORTED_AUDIO_CODECS
        r1 == add_check(r, "Audio Codec", audio_compatible)
    IN  IF ~audio_compatible
        THEN [r1 EXCEPT !.audio_action = "transcode",
                        !.overall_status =
                            IF @ = COMPATIBLE THEN NEEDS_REMUX ELSE @]
        ELSE r1

AudioCheck(r, streams) ==
    IF streams = <<>> THEN r
    ELSE
    LET audio_stream == streams[1]
        audio_codec == lower(audio_stream.codec_name)
        audio_compatible == audio_codec \in APPLE_TV_SUPPORTED_AUDIO_CODECS
        r1 == add_check(r, "Audio Codec", audio_compatible)
    IN  IF ~audio_compatible
        THEN [r1 EXCEPT !.audio_action = "transcode",
                        !.overall_status =
                            IF @ = COMPATIBLE THEN NEEDS_REMUX ELSE @]
        ELSE r1

EstimateTime(r) ==
    [r EXCEPT !.estimated_time =
        IF r.video_action = "transcode" THEN "Long"
        ELSE IF r.audio_action = "transcode" \/ r.container_action = "remux" THEN "Fast"
        ELSE "None"]

(***************************************************************************)
(* check_apple_tv_compatibility, one action per check, in the order of the *)
(* code.                                                                   *)
(***************************************************************************)
video_stream == get_video_stream(probe_data)
audio_streams == get_audio_streams(probe_data)

ProbeDatas ==
    { a : a \in AudioLists } \cup { <<v>> \o a : v \in VideoStreams, a \in AudioLists }

CompatInit ==
    /\ cpc = "container"
    /\ input_ext \in Extensions
    /\ probe_data \in ProbeDatas
    /\ result = NewResult
    /\ prev_status = COMPATIBLE

Step(from, to, r) ==
    /\ cpc = from
    /\ cpc' = to
    /\ prev_status' = result.overall_status
    /\ result' = r
    /\ UNCHANGED <<input_ext, probe_data>>
    /\ UNCHANGED notCompat

CheckContainer ==
    Step("container",
         IF video_stream # NoStream THEN "video_codec" ELSE "audio",
         ContainerCheck(result, input_ext))

CheckVideoCodec ==
    /\ cpc = "video_codec"
    /\ LET video_codec == lower(video_stream.codec_name) IN
       Step("video_codec",
            IF video_codec \in H264_CODECS THEN "h264_profile"
            ELSE IF video_codec \in HEVC_CODECS THEN "hevc_profile"
            ELSE "resolution",
            VideoCodecCheck(result, video_stream))

CheckH264Profile ==
    /\ cpc = "h264_profile"
    /\ Step("h264_profile", "h264_level", H264ProfileCheck(result, video_stream))

CheckH264Level ==
    /\ cpc = "h264_level"
    /\ Step("h264_level", "resolution", H264LevelCheck(result, video_stream))

CheckHEVCProfile ==
    /\ cpc = "hevc_profile"
    /\ Step("hevc_profile", "resolution", HEVCProfileCheck(result, video_stream))

CheckResolution ==
    /\ cpc = "resolution"
    /\ Step("resolution", "frame_rate", ResolutionCheck(result, video_stream))

CheckFrameRate ==
    /\ cpc = "frame_rate"
    /\ Step("frame_rate", "bit_depth", FrameRateCheck(result, video_stream))

CheckBitDepth ==
    /\ cpc = "bit_depth"
    /\ Step("bit_depth", "audio", BitDepthCheck(result, video_stream))

CheckAudioCodec ==
    Step("audio", "estimate", AudioCheck(result, audio_streams))

ReturnResult ==
    Step("estimate", "done", EstimateTime(result))

CompatNext ==
    \/ CheckContainer
    \/ CheckVideoCodec
    \/ CheckH264Profile
    \/ CheckH264Level
    \/ CheckHEVCProfile
    \/ CheckResolution
    \/ CheckFrameRate
    \/ CheckBitDepth
    \/ CheckAudioCodec
    \/ ReturnResult

\* the classifier as a function of its arguments
check_apple_tv_compatibility(pd, ext) ==
    LET vs == get_video_stream(pd)
        r1 == ContainerCheck(NewResult, ext)
        r2 == IF vs = NoStream THEN r1 ELSE VideoCodecCheck(r1, vs)
        r3 == IF vs = NoStream THEN r2
              ELSE IF lower(vs.codec_name) \in H264_CODECS
                   THEN H264LevelCheck(H264ProfileCheck(r2, vs), vs)
              ELSE IF lower(vs.codec_name) \in HEVC_CODECS
                   THEN HEVCProfileCheck(r2, vs)
              ELSE r2
        r4 == IF vs = NoStream THEN r3
              ELSE BitDepthCheck(FrameRateCheck(ResolutionCheck(r3, vs), vs), vs)
    IN  EstimateTime(AudioCheck(r4, get_audio_streams(pd)))

CompatIdle ==
    /\ cpc = "idle"
    /\ input_ext = ".mp4"
    /\ probe_data = <<>>
    /\ result = NewResult
    /\ prev_status = COMPATIBLE

(***************************************************************************)
(* Exact arithmetic for the bitrate planner: a number is a fraction n/d in *)
(* lowest terms with d > 0.  (The code computes in binary floating point;  *)
(* the model computes the real-number value of the same expression.)       *)
(***************************************************************************)
RECURSIVE GCD(_, _)
GCD(a, b) == IF b = 0 THEN a ELSE GCD(b, a % b)

Abs(x) == IF x < 0 THEN -x ELSE x

Rat(n, d) ==
    LET g == GCD(Abs(n), Abs(d))
        sg == IF d < 0 THEN -1 ELSE 1
    IN  [n |-> sg * (n \div g), d |-> sg * (d \div g)]

R(i) == [n |-> i, d |-> 1]
RatMul(x, y) == Rat(x.n * y.n, x.d * y.d)
RatDiv(x, y) == Rat(x.n * y.d, x.d * y.n)
RatSub(x, y) == Rat(x.n * y.d - y.n * x.d, x.d * y.d)
RatLeq(x, y) == x.n * y.d <= y.n * x.d
RatMax(x, y) == IF RatLeq(x, y) THEN y ELSE x
\* int(x): truncation towards zero
RatInt(x) == IF x.n >= 0 THEN x.n \div x.d ELSE -((-x.n) \div x.d)

DEFAULT_AUDIO_BITRATE_KBPS == 192
DEFAULT_TARGET_SIZE_MB_PER_HOUR == 900

\* a calculation that does not clamp the video bitrate at 0
calculate_target_bitrate_unclamped(duration_seconds, target_size_mb_per_hour, audio_bitrate_kbps) ==
    IF duration_seconds.n = 0
    THEN [raised |-> "ZeroDivisionError"]
    ELSE
    LET duration_hours == RatDiv(duration_seconds, R(3600))
        target_size_mb == RatMul(target_size_mb_per_hour, duration_hours)
        total_bitrate_kbps ==
            RatDiv(RatMul(RatMul(target_size_mb, R(8)), R(1024)), duration_seconds)
    IN  [raised |-> "",
         total_bitrate_kbps |-> total_bitrate_kbps,
         video_bitrate_kbps |-> RatSub(total_bitrate_kbps, audio_bitrate_kbps)]

calculate_target_bitrate(duration_seconds, target_size_mb_per_hour, audio_bitrate_kbps) ==
    IF duration_seconds.n = 0
    THEN [raised |-> "ZeroDivisionError"]
    ELSE
    LET duration_hours == RatDiv(duration_seconds, R(3600))
        target_size_mb == RatMul(target_size_mb_per_hour, duration_hours)
        total_bitrate_kbps ==
            RatDiv(RatMul(RatMul(target_size_mb, R(8)), R(1024)), duration_seconds)
        video_bitrate_kbps == RatMax(R(0), RatSub(total_bitrate_kbps, audio_bitrate_kbps))
    IN  [raised |-> "",
         total_bitrate_kbps |-> total_bitrate_kbps,
         video_bitrate_kbps |-> video_bitrate_kbps]

\* durations in seconds, target sizes in MB per hour, audio bitrates in kbps
Durations == { R(0), Rat(1, 2), R(1), R(1800), R(3600), Rat(10801, 2), R(7200) }
TargetSizes == { R(-100), R(0), R(50), R(84), Rat(675, 8), R(85), R(900), R(1200) }
AudioBitrates == { R(0), R(DEFAULT_AUDIO_BITRATE_KBPS), R(640), R(4000) }

BitrateInit ==
    /\ br_pc = "call"
    /\ br_args \in [duration_seconds : Durations,
                    target_size_mb_per_hour : TargetSizes,
                    audio_bitrate_kbps : AudioBitrates]
    /\ br_ret = [raised |-> "unset"]

BitrateIdle ==
    /\ br_pc = "idle"
    /\ br_args = [duration_seconds |-> R(0), target_size_mb_per_hour |-> R(0),
                  audio_bitrate_kbps |-> R(0)]
    /\ br_ret = [raised |-> "unset"]

CalculateTargetBitrate ==
    /\ br_pc = "call"
    /\ br_pc' = "returned"
    /\ br_ret' = calculate_target_bitrate(br_args.duration_seconds,
                                          br_args.target_size_mb_per_hour,
                                          br_args.audio_bitrate_kbps)
    /\ UNCHANGED br_args
    /\ UNCHANGED notBitrate

BitrateNext == CalculateTargetBitrate

(***************************************************************************)
(* The batch run: main.py (mode detection, the wildcard loop),             *)
(* transcode.py (transcode_all, transcode_file) and subtitles.py           *)
(* (convert_bitmap_subtitles, convert_sup_to_srt_easyocr).                 *)
(*                                                                         *)
(* Inputs.  A file of the batch has the properties the pipeline reacts to: *)
(*   name  "plain", or "long" (the output name "<stem>.mp4" exceeds the    *)
(*         file system's name limit, so Path.exists() raises OSError), or  *)
(*         "unencodable" (the name has a character that the console's      *)
(*         encoding lacks, so print() of it raises UnicodeEncodeError);    *)
(*   ext, probe_data  what the compatibility classifier would be given.    *)
(***************************************************************************)
NumFiles == 2
MaxBitmapTracks == 2

CompatibleVideo ==
    [codec_type |-> "video", codec_name |-> "h264", profile |-> "High",
     level |-> [kind |-> "num", h |-> 4200], width |-> 1920, height |-> 1080,
     r_frame_rate |-> [kind |-> "ratio", num |-> 60, den |-> 1], pix_fmt |-> PIX_YUV420P]

IncompatibleVideo == [CompatibleVideo EXCEPT !.codec_name = "mpeg2video", !.profile = "Main"]

MediaFiles ==
    { [name |-> "plain", ext |-> ".mp4",
       probe_data |-> <<CompatibleVideo, AudioStream("AAC")>>],
      [name |-> "plain", ext |-> ".MKV",
       probe_data |-> <<IncompatibleVideo, AudioStream("DTS")>>],
      [name |-> "long", ext |-> ".MKV",
       probe_data |-> <<CompatibleVideo, AudioStream("AAC")>>],
      [name |-> "unencodable", ext |-> ".mp4",
       probe_data |-> <<CompatibleVideo, AudioStream("AAC")>>] }

FileLists == UNION { [1..n -> MediaFiles] : n \in 0..NumFiles }

\* the command line: rewrap is args.rewrap (None unless --rewrap), wildcard
\* tells whether the source argument has a wildcard
NoFlags ==
    [rewrap |-> "None", transcode |-> FALSE,
     targetSizePerHour |-> R(DEFAULT_TARGET_SIZE_MB_PER_HOUR),
     noBitmapSubs |-> FALSE, fileNamePattern |-> "default", wildcard |-> FALSE]

CommandLines ==
    { [a EXCEPT !.wildcard = w] :
        w \in BOOLEAN,
        a \in { NoFlags,
                [NoFlags EXCEPT !.rewrap = "True"],
                [NoFlags EXCEPT !.transcode = TRUE],
                [NoFlags EXCEPT !.rewrap = "True", !.transcode = TRUE],
                [NoFlags EXCEPT !.rewrap = "True", !.targetSizePerHour = R(1200)],
                [NoFlags EXCEPT !.targetSizePerHour = R(50)],
                [NoFlags EXCEPT !.targetSizePerHour = R(0)],
                [NoFlags EXCEPT !.targetSizePerHour = R(-100)],
                [NoFlags EXCEPT !.noBitmapSubs = TRUE],
                [NoFlags EXCEPT !.fileNamePattern = "malformed"] } }

NoCmd == [mode |-> "none"]

\* the values of transcode_file's locals at its entry, and between calls
FileLocalsReset ==
    /\ exc' = ""
    /\ ret' = "unset"
    /\ temp_dirs' = {}
    /\ cover_image_path' = "None"
    /\ bitmap_streams' = <<>>
    /\ track' = 0
    /\ generated_subtitles' = <<>>
    /\ generated' = <<>>
    /\ cmd' = NoCmd

BatchInit ==
    /\ args \in CommandLines
    /\ video_files \in FileLists
    /\ mpc = "mode_detection"
    /\ rewrap_mode = "None"
    /\ file_idx = 0
    /\ success_count = 0
    /\ calls = [i \in 1..Len(video_files) |-> 0]
    /\ returned_true = 0
    /\ reported = -1
    /\ tpc = "idle"
    /\ exc = ""
    /\ ret = "unset"
    /\ temp_dirs = {}
    /\ fs_temp = {}
    /\ cover_image_path = "None"
    /\ bitmap_streams = <<>>
    /\ track = 0
    /\ generated_subtitles = <<>>
    /\ generated = <<>>
    /\ cmd = NoCmd
    /\ running = {}

BatchIdle ==
    /\ args = NoFlags
    /\ video_files = <<>>
    /\ mpc = "idle"
    /\ rewrap_mode = "None"
    /\ file_idx = 0
    /\ success_count = 0
    /\ calls = <<>>
    /\ returned_true = 0
    /\ reported = -1
    /\ tpc = "idle"
    /\ exc = ""
    /\ ret = "unset"
    /\ temp_dirs = {}
    /\ fs_temp = {}
    /\ cover_image_path = "None"
    /\ bitmap_streams = <<>>
    /\ track = 0
    /\ generated_subtitles = <<>>
    /\ generated = <<>>
    /\ cmd = NoCmd
    /\ running = {}

\* main.py 442-456: the mode handed to transcode_file
ModeDetection(a) ==
    LET explicit_transcode_params ==
            a.targetSizePerHour # R(DEFAULT_TARGET_SIZE_MB_PER_HOUR) \/ a.transcode
    IN  IF a.transcode THEN "False"
        ELSE IF a.rewrap = "None" /\ explicit_transcode_params THEN "False"
        ELSE a.rewrap

\* main.py 442-471: mode detection, then the dependency check, which turns
\* bitmap subtitle conversion off when an OCR dependency is missing
MainModeDetection ==
    /\ mpc = "mode_detection"
    /\ rewrap_mode' = ModeDetection(args)
    /\ \E all_available \in BOOLEAN :
        args' = IF ~args.noBitmapSubs /\ ~all_available
                THEN [args EXCEPT !.noBitmapSubs = TRUE]
                ELSE args
    /\ mpc' = "expand"
    /\ UNCHANGED <<video_files, file_idx, success_count, calls, returned_true, reported>>
    /\ UNCHANGED fileVars
    /\ UNCHANGED notBatch

\* main.py 487-509 (expand_path_pattern raises ValueError when nothing
\* matches, and main exits with status 1) and transcode.py 811-829
\* (transcode_all returns when the directory has no file)
ListFiles ==
    /\ mpc = "expand"
    /\ mpc' = IF video_files # <<>> THEN "loop"
              ELSE IF args.wildcard THEN "exit_1" ELSE "returned"
    /\ success_count' = 0
    /\ UNCHANGED <<args, video_files, rewrap_mode, file_idx, calls, returned_true, reported>>
    /\ UNCHANGED fileVars
    /\ UNCHANGED notBatch

\* the loop's update of its counter (main.py 511-521, transcode.py 831-832)
SuccessCount(count, value) == IF value = "True" THEN count + 1 ELSE count

\* main.py 510-520, transcode.py 830-831: the loop calls transcode_file for
\* the next file
CallTranscodeFile ==
    /\ mpc = "loop"
    /\ tpc = "idle"
    /\ file_idx < Len(video_files)
    /\ file_idx' = file_idx + 1
    /\ calls' = [calls EXCEPT ![file_idx + 1] = @ + 1]
    /\ tpc' = "get_output_path"
    /\ UNCHANGED <<args, video_files, mpc, rewrap_mode, success_count, returned_true, reported>>
    /\ UNCHANGED <<exc, ret, temp_dirs, fs_temp, cover_image_path, bitmap_streams, track,
                   generated, generated_subtitles, cmd, running>>
    /\ UNCHANGED notBatch

\* main.py 511-521, transcode.py 831-832: transcode_file returned
FileReturns ==
    /\ mpc = "loop"
    /\ tpc = "returned"
    /\ success_count' = SuccessCount(success_count, ret)
    /\ returned_true' = IF ret = "True" THEN returned_true + 1 ELSE returned_true
    /\ tpc' = "idle"
    /\ FileLocalsReset
    /\ UNCHANGED <<args, video_files, mpc, rewrap_mode, file_idx, calls, reported>>
    /\ UNCHANGED <<fs_temp, running>>
    /\ UNCHANGED notBatch

\* an exception left transcode_file.  In the wildcard loop main.py 525-527
\* catches ValueError (UnicodeEncodeError is one) and exits with status 1,
\* and any other exception ends the program with a traceback; around
\* transcode_all, main.py 561-567 catches every Exception and exits with
\* status 1.  No path goes back into the loop.
FileRaises ==
    /\ mpc = "loop"
    /\ tpc = "raised"
    /\ mpc' = "exit_1"
    /\ tpc' = "idle"
    /\ FileLocalsReset
    /\ UNCHANGED <<args, video_files, rewrap_mode, file_idx, success_count, calls,
                   returned_true, reported>>
    /\ UNCHANGED <<fs_temp, running>>
    /\ UNCHANGED notBatch

\* main.py 523-524, transcode.py 834: the "Completed:" line
Report ==
    /\ mpc = "loop"
    /\ tpc = "idle"
    /\ file_idx = Len(video_files)
    /\ reported' = success_count
    /\ mpc' = "returned"
    /\ UNCHANGED <<args, video_files, rewrap_mode, file_idx, success_count, calls, returned_true>>
    /\ UNCHANGED fileVars
    /\ UNCHANGED notBatch

(***************************************************************************)
(* transcode_file, step by step.  A step of the file pipeline leaves the   *)
(* variables of main alone.                                                *)
(***************************************************************************)
input_file == video_files[file_idx]

FileStep(from, to) ==
    /\ mpc = "loop"
    /\ tpc = from
    /\ tpc' = to
    /\ UNCHANGED mainVars
    /\ UNCHANGED notBatch

\* a temporary directory: its kind and the call that created it
TempDir(kind) == [kind |-> kind, owner |-> file_idx]

\* shutil.rmtree of a directory: the frames directory of a track lies inside
\* the subtitle directory of the same call
Rmtree(fs, d) ==
    fs \ ({d} \cup IF d.kind = "subs"
                   THEN {[kind |-> "frames", owner |-> d.owner]} ELSE {})

\* transcode.py 681 and utils.py 442-481: get_output_path is called before
\* the try statement; Path.exists() raises OSError for a name that is too
\* long
GetOutputPath ==
    /\ tpc = "get_output_path"
    /\ \/ /\ input_file.name # "long"
          /\ FileStep("get_output_path", "print_processing")
          /\ UNCHANGED exc
       \/ /\ input_file.name = "long"
          /\ FileStep("get_output_path", "raised")
          /\ exc' = "OSError"
    /\ UNCHANGED <<ret, temp_dirs, fs_temp, cover_image_path, bitmap_streams, track,
                   generated, generated_subtitles, cmd, running>>

\* transcode.py 683-688: print(f"Processing: {input_path.name}"), before the
\* try statement
PrintProcessing ==
    /\ tpc = "print_processing"
    /\ \/ /\ input_file.name # "unencodable"
          /\ FileStep("print_processing", "parse_metadata")
          /\ UNCHANGED exc
       \/ /\ input_file.name = "unencodable"
          /\ FileStep("print_processing", "raised")
          /\ exc' = "UnicodeEncodeError"
    /\ UNCHANGED <<ret, temp_dirs, fs_temp, cover_image_path, bitmap_streams, track,
                   generated, generated_subtitles, cmd, running>>

\* transcode.py 692-695 and metadata.py 53-81: build_pattern_regex raises
\* ValueError for a malformed pattern
ParseMetadata ==
    /\ \/ /\ args.fileNamePattern = "default"
          /\ FileStep("parse_metadata", "probe")
          /\ UNCHANGED exc
       \/ /\ args.fileNamePattern = "malformed"
          /\ FileStep("parse_metadata", "except")
          /\ exc' = "ValueError"
    /\ UNCHANGED <<ret, temp_dirs, fs_temp, cover_image_path, bitmap_streams, track,
                   generated, generated_subtitles, cmd, running>>

\* transcode.py 697-698 and utils.py 228-256: ffprobe fails, or gives the
\* probe data
ProbeVideoFile ==
    /\ \E ok \in BOOLEAN :
        \/ /\ ok
           /\ FileStep("probe", "find_cover")
           /\ UNCHANGED exc
        \/ /\ ~ok
           /\ FileStep("probe", "except")
           /\ exc' = "FFmpegError"
    /\ UNCHANGED <<ret, temp_dirs, fs_temp, cover_image_path, bitmap_streams, track,
                   generated, generated_subtitles, cmd, running>>

\* transcode.py 701-707: find_cover_image; when a cover is found, mkdtemp of
\* the cover directory and its registration in temp_dirs
FindCoverImage ==
    /\ \E cover_image \in BOOLEAN :
        \/ /\ ~cover_image
           /\ FileStep("find_cover", "probe_subs")
           /\ UNCHANGED <<temp_dirs, fs_temp>>
        \/ /\ cover_image
           /\ FileStep("find_cover", "convert_cover")
           /\ fs_temp' = fs_temp \cup {TempDir("cover")}
           /\ temp_dirs' = temp_dirs \cup {TempDir("cover")}
    /\ UNCHANGED <<exc, ret, cover_image_path, bitmap_streams, track, generated,
                   generated_subtitles, cmd, running>>

\* transcode.py 709-713 and utils.py 520-567: convert_image_for_apple_tv
\* gives the converted image or raises FFmpegError, which line 711 catches
ConvertCover ==
    /\ FileStep("convert_cover", "probe_subs")
    /\ \E converted \in BOOLEAN :
        cover_image_path' = IF converted THEN "converted" ELSE "None"
    /\ UNCHANGED <<exc, ret, temp_dirs, fs_temp, bitmap_streams, track, generated,
                   generated_subtitles, cmd, running>>

\* language tags of bitmap subtitle streams: a tag EasyOCR knows, no tag, and
\* a three-letter tag that normalize_language_tag returns as it is and that
\* the console's encoding cannot encode
LanguageTags == {"eng", "None", "unencodable"}

BitmapStreamLists ==
    UNION { [1..n -> [language : LanguageTags]] : n \in 0..MaxBitmapTracks }

\* subtitles.py 227-277, for the tags of the model
normalize_language_for_easyocr(language_code) ==
    IF language_code = "eng" THEN "en" ELSE "None"

\* transcode.py 716-722 and subtitles.py 280-327: with conversion enabled,
\* ffprobe fails (caught at line 730) or lists the bitmap streams
ProbeSubtitleStreams ==
    /\ \/ /\ args.noBitmapSubs
          /\ FileStep("probe_subs", "mode")
          /\ UNCHANGED bitmap_streams
       \/ /\ ~args.noBitmapSubs
          /\ FileStep("probe_subs", "mode")
          /\ UNCHANGED bitmap_streams
       \/ /\ ~args.noBitmapSubs
          /\ \E found \in BitmapStreamLists :
               /\ bitmap_streams' = found
               /\ IF found = <<>>
                  THEN FileStep("probe_subs", "mode")
                  ELSE FileStep("probe_subs", "subs_mkdtemp")
    /\ UNCHANGED <<exc, ret, temp_dirs, fs_temp, cover_image_path, track, generated,
                   generated_subtitles, cmd, running>>

\* subtitles.py 599-603: convert_bitmap_subtitles creates its directory
SubsMkdtemp ==
    /\ FileStep("subs_mkdtemp", "subs_announce")
    /\ fs_temp' = fs_temp \cup {TempDir("subs")}
    /\ UNCHANGED <<exc, ret, temp_dirs, cover_image_path, bitmap_streams, track, generated,
                   generated_subtitles, cmd, running>>

\* subtitles.py 616-622: the "Converting..." lines, written before the try
\* statement of line 641.  A tag the console cannot encode makes
\* sys.stdout.write raise UnicodeEncodeError; the exception leaves
\* convert_bitmap_subtitles and transcode.py 730-731 catches it.
SubsAnnounce ==
    /\ \/ /\ \A i \in 1..Len(bitmap_streams) : bitmap_streams[i].language # "unencodable"
          /\ FileStep("subs_announce", "subs_track")
          /\ track' = 1
          /\ UNCHANGED bitmap_streams
       \/ /\ \E i \in 1..Len(bitmap_streams) : bitmap_streams[i].language = "unencodable"
          /\ FileStep("subs_announce", "mode")
          /\ bitmap_streams' = <<>>
          /\ UNCHANGED track
    /\ UNCHANGED <<exc, ret, temp_dirs, fs_temp, cover_image_path, generated,
                   generated_subtitles, cmd, running>>

\* subtitles.py 642-664 and 512-513: one stream of the loop.  A stream
\* without an OCR language is skipped; extract_subtitle_sup fails (caught at
\* line 678) or gives the .sup file, and convert_sup_to_srt_easyocr then
\* creates the frames directory inside the subtitle directory.
ConvertTrack ==
    /\ tpc = "subs_track"
    /\ track <= Len(bitmap_streams)
    /\ \/ /\ normalize_language_for_easyocr(bitmap_streams[track].language) = "None"
          /\ FileStep("subs_track", "subs_track")
          /\ track' = track + 1
          /\ UNCHANGED fs_temp
       \/ /\ normalize_language_for_easyocr(bitmap_streams[track].language) # "None"
          /\ \E extracted \in BOOLEAN :
              \/ /\ ~extracted
                 /\ FileStep("subs_track", "subs_track")
                 /\ track' = track + 1
                 /\ UNCHANGED fs_temp
              \/ /\ extracted
                 /\ FileStep("subs_track", "ocr")
                 /\ fs_temp' = fs_temp \cup {TempDir("frames")}
                 /\ UNCHANGED track
    /\ UNCHANGED <<exc, ret, temp_dirs, cover_image_path, bitmap_streams, generated,
                   generated_subtitles, cmd, running>>

\* subtitles.py 662-681: the stream whose .srt file was written is appended
\* to the list; the handler of a failed stream leaves the list as it is
AfterTrack_failure_aborts(list, stream, srt) ==
    IF srt THEN Append(list, stream) ELSE <<>>

AfterTrack(list, stream, srt) ==
    IF srt THEN Append(list, stream) ELSE list

\* subtitles.py 515-582 and 666-681: OCR of the frames gives the .srt file or
\* raises; the finally clause removes the frames directory either way
OcrFrames ==
    /\ FileStep("ocr", "subs_track")
    /\ fs_temp' = Rmtree(fs_temp, TempDir("frames"))
    /\ \E srt \in BOOLEAN : generated' = AfterTrack(generated, track, srt)
    /\ track' = track + 1
    /\ UNCHANGED <<exc, ret, temp_dirs, cover_image_path, bitmap_streams,
                   generated_subtitles, cmd, running>>

\* subtitles.py 686 and transcode.py 723-729: convert_bitmap_subtitles
\* returns, and transcode_file registers the directory in temp_dirs
SubsReturn ==
    /\ tpc = "subs_track"
    /\ track > Len(bitmap_streams)
    /\ FileStep("subs_track", "mode")
    /\ generated_subtitles' = generated
    /\ generated' = <<>>
    /\ temp_dirs' = temp_dirs \cup {TempDir("subs")}
    /\ bitmap_streams' = <<>>
    /\ track' = 0
    /\ UNCHANGED <<exc, ret, fs_temp, cover_image_path, cmd, running>>

\* utils.py 196-225: the first encoder of the priority list that ffmpeg
\* lists, libx265 when it lists none of them
GpuEncoderPriority == <<"hevc_nvenc", "hevc_amf", "hevc_qsv", "hevc_videotoolbox">>

detect_gpu_encoder(listed) ==
    LET hits == { i \in 1..Len(GpuEncoderPriority) : GpuEncoderPriority[i] \in listed }
    IN  IF hits = {} THEN "libx265"
        ELSE GpuEncoderPriority[CHOOSE i \in hits : \A j \in hits : i <= j]

\* what "ffmpeg -encoders" lists on the machines of the model
ListedEncoders == { {"libx265"}, {"libx265", "hevc_qsv", "hevc_nvenc"} }

\* durations that get_video_duration reads from the probe data, in seconds
FileDurations == { R(3600), R(0) }

\* transcode.py 38-180 (line 101) and ffmpeg.py 50-190 (line 123): the
\* command of transcode mode; b_v is the number of "-b:v:0 <number>k", and
\* subtitles the converted bitmap subtitles that the command takes as inputs
build_transcode_command(video_bitrate_kbps, encoder, subtitles) ==
    [mode |-> "transcode", encoder |-> encoder, b_v |-> RatInt(video_bitrate_kbps),
     subtitles |-> subtitles]

\* transcode.py 183-298: the command of rewrap mode
build_rewrap_command(subtitles) ==
    [mode |-> "rewrap", encoder |-> "copy", b_v |-> -1, subtitles |-> subtitles]

\* transcode.py 733: "if rewrap:" takes the rewrap branch for True only;
\* None and False are both falsy
RewrapBranch(rewrap) == rewrap = "True"

\* transcode.py 733-769: the command is built in the mode that the rewrap
\* parameter selects, the bitrate planned and the encoder detected in
\* transcode mode; get_video_duration raises ValueError when the probe data
\* has no duration, calculate_target_bitrate raises ZeroDivisionError for a
\* duration of 0
BuildCommand ==
    /\ \/ /\ FileStep("mode", "except")
          /\ exc' = "ValueError"
          /\ cmd' = IF RewrapBranch(rewrap_mode)
                  THEN build_rewrap_command(generated_subtitles) ELSE cmd
       \/ /\ RewrapBranch(rewrap_mode)
          /\ FileStep("mode", "run")
          /\ cmd' = build_rewrap_command(generated_subtitles)
          /\ UNCHANGED exc
       \/ /\ ~RewrapBranch(rewrap_mode)
          /\ \E d \in FileDurations, listed \in ListedEncoders :
               LET plan == calculate_target_bitrate(d, args.targetSizePerHour,
                                                    R(DEFAULT_AUDIO_BITRATE_KBPS))
               IN  IF plan.raised # ""
                   THEN /\ FileStep("mode", "except")
                        /\ exc' = plan.raised
                        /\ UNCHANGED cmd
                   ELSE /\ FileStep("mode", "run")
                        /\ cmd' = build_transcode_command(plan.video_bitrate_kbps,
                                                          detect_gpu_encoder(listed),
                                                          generated_subtitles)
                        /\ UNCHANGED exc
    /\ UNCHANGED <<ret, temp_dirs, fs_temp, cover_image_path, bitmap_streams, track, generated,
                   generated_subtitles, running>>

\* transcode.py 771 and 367-390: run_ffmpeg_with_progress starts the
\* encoder process with the command
StartEncoder ==
    /\ FileStep("run", "encoding")
    /\ running' = running \cup {file_idx}
    /\ UNCHANGED <<exc, ret, temp_dirs, fs_temp, cover_image_path, bitmap_streams, track,
                   generated, generated_subtitles, cmd>>

\* transcode.py 771-779: the encoder exits; transcode_file returns True for
\* exit code 0 and False otherwise
EncoderExits ==
    /\ FileStep("encoding", "finally")
    /\ running' = running \ {file_idx}
    /\ \E returncode \in {0, 1} : ret' = IF returncode = 0 THEN "True" ELSE "False"
    /\ UNCHANGED <<exc, temp_dirs, fs_temp, cover_image_path, bitmap_streams, track,
                   generated, generated_subtitles, cmd>>

\* transcode.py 781-783: the handler of the try statement reports the
\* exception and returns False
ExceptHandler ==
    /\ FileStep("except", "finally")
    /\ exc' = ""
    /\ ret' = "False"
    /\ UNCHANGED <<temp_dirs, fs_temp, cover_image_path, bitmap_streams, track,
                   generated, generated_subtitles, cmd, running>>

\* transcode.py 784-788: every directory of temp_dirs is removed
CleanUp(fs, dirs) == fs \ UNION { fs \ Rmtree(fs, d) : d \in dirs }

FinallyClause ==
    /\ FileStep("finally", "returned")
    /\ fs_temp' = CleanUp(fs_temp, temp_dirs)
    /\ UNCHANGED <<exc, ret, temp_dirs, cover_image_path, bitmap_streams, track,
                   generated, generated_subtitles, cmd, running>>

BatchNext ==
    \/ MainModeDetection
    \/ ListFiles
    \/ CallTranscodeFile
    \/ FileReturns
    \/ FileRaises
    \/ Report
    \/ GetOutputPath
    \/ PrintProcessing
    \/ ParseMetadata
    \/ ProbeVideoFile
    \/ FindCoverImage
    \/ ConvertCover
    \/ ProbeSubtitleStreams
    \/ SubsMkdtemp
    \/ SubsAnnounce
    \/ ConvertTrack
    \/ OcrFrames
    \/ SubsReturn
    \/ BuildCommand
    \/ StartEncoder
    \/ EncoderExits
    \/ ExceptHandler
    \/ FinallyClause

(***************************************************************************)
(* The encoder monitor: run_ffmpeg_with_progress of ffmpeg.py.  The        *)
(* encoder process writes lines to its two pipes and exits; two reader     *)
(* threads move the lines into queues; the main thread takes them from the *)
(* queues, records the lines it takes for errors, and returns the exit     *)
(* code with the recorded lines.  A line in a pipe or a queue is its index *)
(* in StderrLines; its text is what the filters search.                    *)
(***************************************************************************)
MaxStderrLines == 2
MaxStdoutLines == 1

FASTSTART_MESSAGE == <<"S","t","a","r","t","i","n","g"," ","s","e","c","o",
        "n","d"," ","p","a","s","s",":"," ","m","o","v","i","n","g"," ","t",
        "h","e"," ","m","o","o","v"," ","a","t","o","m"," ","t","o"," ","t",
        "h","e"," ","b","e","g","i","n","n","i","n","g"," ","o","f"," ","t",
        "h","e"," ","f","i","l","e">>

\* ffmpeg.py 697-704 and 834-841: the texts that mark a line as stream
\* information, configuration or progress
SkipTexts ==
    { <<"f","f","m","p","e","g"," ","v","e","r","s","i","o","n">>,
      <<"b","u","i","l","t"," ","w","i","t","h">>,
      <<"c","o","n","f","i","g","u","r","a","t","i","o","n",":">>,
      <<"l","i","b","a","v">>,
      <<"i","n","p","u","t"," ","#">>,
      <<"o","u","t","p","u","t"," ","#">>,
      <<"s","t","r","e","a","m"," ","#">>,
      <<"m","e","t","a","d","a","t","a",":">>,
      <<"d","u","r","a","t","i","o","n",":">>,
      <<"e","n","c","o","d","e","r">>,
      <<"b","p","s">>,
      <<"n","u","m","b","e","r","_","o","f">>,
      <<"s","t","a","t","i","s","t","i","c","s">>,
      <<"s","t","r","e","a","m"," ","m","a","p","p","i","n","g">>,
      <<"p","r","e","s","s"," ","[","q","]">>,
      <<"f","r","a","m","e","=">>,
      <<"f","p","s","=">>,
      <<"s","i","z","e","=">>,
      <<"t","i","m","e","=">>,
      <<"b","i","t","r","a","t","e","=">>,
      <<"s","p","e","e","d","=">>,
      <<"[","m","p","4"," ","@">>,
      <<"p","a","c","k","e","t"," ","d","u","r","a","t","i","o","n">>,
      <<"p","t","s"," ","h","a","s"," ","n","o"," ","v","a","l","u","e">>,
      <<"m","u","x","i","n","g"," ","o","v","e","r","h","e","a","d">>,
      <<"e","l","a","p","s","e","d","=">> }

\* the lines the encoder may write to standard error, each with the level
\* at which ffmpeg logs it
StderrLines ==
    <<
      \* 1: "Error opening input file movie.mkv.\n"
      [text |-> <<"E","r","r","o","r"," ","o","p","e","n","i","n","g",
             " ","i","n","p","u","t"," ","f","i","l","e"," ","m","o","v","i","e",
             ".","m","k","v",".","\n">>,
          level |-> "error"],
      \* 2: "movie.mkv: No such file or directory\n"
      [text |-> <<"m","o","v","i","e",".","m","k","v",":"," ","N","o",
             " ","s","u","c","h"," ","f","i","l","e"," ","o","r"," ","d","i","r",
             "e","c","t","o","r","y","\n">>,
          level |-> "error"],
      \* 3: "Fatal error: cannot allocate memory\n"
      [text |-> <<"F","a","t","a","l"," ","e","r","r","o","r",":"," ",
             "c","a","n","n","o","t"," ","a","l","l","o","c","a","t","e"," ","m",
             "e","m","o","r","y","\n">>,
          level |-> "error"],
      \* 4: "Error while opening encoder for output stream #0:0\n"
      [text |-> <<"E","r","r","o","r"," ","w","h","i","l","e"," ","o",
             "p","e","n","i","n","g"," ","e","n","c","o","d","e","r"," ","f","o",
             "r"," ","o","u","t","p","u","t"," ","s","t","r","e","a","m"," ","#",
             "0",":","0","\n">>,
          level |-> "error"],
      \* 5: "Starting second pass: moving the moov atom to the beginning of the file\n"
      [text |-> <<"S","t","a","r","t","i","n","g"," ","s","e","c","o",
             "n","d"," ","p","a","s","s",":"," ","m","o","v","i","n","g"," ","t",
             "h","e"," ","m","o","o","v"," ","a","t","o","m"," ","t","o"," ","t",
             "h","e"," ","b","e","g","i","n","n","i","n","g"," ","o","f"," ","t",
             "h","e"," ","f","i","l","e","\n">>,
          level |-> "info"],
      \* 6: "frame=  100 fps= 25 speed=1x\n"
      [text |-> <<"f","r","a","m","e","="," "," ","1","0","0"," ","f",
             "p","s","="," ","2","5"," ","s","p","e","e","d","=","1","x","\n">>,
          level |-> "info"],
      \* 7: "\n"
      [text |-> <<"\n">>,
          level |-> "info"] >>

\* str.strip(): the text without its leading and trailing white space
WhiteSpace == {" ", "\n", "\t", "\r"}

RECURSIVE lstrip(_)
lstrip(cs) ==
    IF cs # <<>> /\ Head(cs) \in WhiteSpace THEN lstrip(Tail(cs)) ELSE cs

RECURSIVE rstrip(_)
rstrip(cs) ==
    IF cs # <<>> /\ cs[Len(cs)] \in WhiteSpace
    THEN rstrip(SubSeq(cs, 1, Len(cs) - 1)) ELSE cs

strip(cs) == rstrip(lstrip(cs))

TEXT_ERROR == <<"e","r","r","o","r">>
TEXT_FATAL == <<"f","a","t","a","l">>
TEXT_WARNING == <<"w","a","r","n","i","n","g">>
TEXT_INFO == <<"i","n","f","o">>

\* ffmpeg.py 697-704: any(skip in line.lower() for skip in [...])
IsSkipLine(line) == \E skip \in SkipTexts : Contains(skip, lowerChars(line))

\* ffmpeg.py 650-715: does the main loop append the stripped line to
\* error_lines
MainLoopRecords(line) ==
    IF Contains(FASTSTART_MESSAGE, line) THEN FALSE
    ELSE IF IsSkipLine(line)
    THEN /\ Contains(TEXT_ERROR, lowerChars(line))
         /\ ~ \E warn \in {TEXT_WARNING, TEXT_INFO} : Contains(warn, lowerChars(line))
    ELSE /\ Contains(TEXT_ERROR, lowerChars(line))
         /\ Contains(TEXT_FATAL, lowerChars(line))

\* ffmpeg.py 830-849: does the loop that empties the queue after the wait
\* append the stripped line to error_lines
DrainRecords(line) ==
    /\ Contains(TEXT_ERROR, lowerChars(line))
    /\ Contains(TEXT_FATAL, lowerChars(line))

\* ffmpeg.py 650-652 and 830-832: "if line:" before and after strip()
Text(i) == StderrLines[i].text

Usable(i) == Text(i) # <<>> /\ strip(Text(i)) # <<>>

Running == [state |-> "running", returncode |-> "None"]

MonitorInit ==
    /\ mon_pc = "loop_check"
    /\ process = Running
    /\ stdout_pipe = <<>>
    /\ stderr_pipe = <<>>
    /\ stdout_queue = <<>>
    /\ stderr_queue = <<>>
    /\ stdout_thread = "reading"
    /\ stderr_thread = "reading"
    /\ error_lines = <<>>
    /\ faststart_message_shown = FALSE
    /\ written = <<>>
    /\ progress_written = 0

MonitorIdle ==
    /\ mon_pc = "idle"
    /\ process = Running
    /\ stdout_pipe = <<>>
    /\ stderr_pipe = <<>>
    /\ stdout_queue = <<>>
    /\ stderr_queue = <<>>
    /\ stdout_thread = "idle"
    /\ stderr_thread = "idle"
    /\ error_lines = <<>>
    /\ faststart_message_shown = FALSE
    /\ written = <<>>
    /\ progress_written = 0

\* ---- the encoder process
WriteStderr ==
    /\ mon_pc # "idle"
    /\ process.state = "running"
    /\ Len(written) < MaxStderrLines
    /\ \E i \in DOMAIN StderrLines :
         /\ stderr_pipe' = Append(stderr_pipe, i)
         /\ written' = Append(written, i)
    /\ UNCHANGED <<mon_pc, process, stdout_pipe, stdout_queue, stderr_queue, stdout_thread,
                   stderr_thread, error_lines, faststart_message_shown, progress_written>>
    /\ UNCHANGED notMonitor

\* a key=value line of "-progress pipe:1"
WriteStdout ==
    /\ mon_pc # "idle"
    /\ process.state = "running"
    /\ progress_written < MaxStdoutLines
    /\ stdout_pipe' = Append(stdout_pipe, "frame=100")
    /\ progress_written' = progress_written + 1
    /\ UNCHANGED <<mon_pc, process, stderr_pipe, stdout_queue, stderr_queue, stdout_thread,
                   stderr_thread, error_lines, faststart_message_shown, written>>
    /\ UNCHANGED notMonitor

ProcessExits ==
    /\ mon_pc # "idle"
    /\ process.state = "running"
    /\ \E returncode \in {0, 1} :
         process' = [state |-> "exited", returncode |-> returncode]
    /\ UNCHANGED <<mon_pc, stdout_pipe, stderr_pipe, stdout_queue, stderr_queue,
                   stdout_thread, stderr_thread, error_lines, faststart_message_shown,
                   written, progress_written>>
    /\ UNCHANGED notMonitor

\* ---- the reader threads (ffmpeg.py 442-454): readline gives the next
\* line of the pipe, and '' once the process has exited and the pipe is
\* empty
ReadStdout ==
    /\ stdout_thread = "reading"
    /\ \/ /\ stdout_pipe # <<>>
          /\ stdout_queue' = Append(stdout_queue, Head(stdout_pipe))
          /\ stdout_pipe' = Tail(stdout_pipe)
          /\ UNCHANGED stdout_thread
       \/ /\ stdout_pipe = <<>>
          /\ process.state = "exited"
          /\ stdout_thread' = "finished"
          /\ UNCHANGED <<stdout_pipe, stdout_queue>>
    /\ UNCHANGED <<mon_pc, process, stderr_pipe, stderr_queue, stderr_thread, error_lines,
                   faststart_message_shown, written, progress_written>>
    /\ UNCHANGED notMonitor

ReadStderr ==
    /\ stderr_thread = "reading"
    /\ \/ /\ stderr_pipe # <<>>
          /\ stderr_queue' = IF Text(Head(stderr_pipe)) # <<>>
                             THEN Append(stderr_queue, Head(stderr_pipe))
                             ELSE stderr_queue
          /\ stderr_pipe' = Tail(stderr_pipe)
          /\ UNCHANGED stderr_thread
       \/ /\ stderr_pipe = <<>>
          /\ process.state = "exited"
          /\ stderr_thread' = "finished"
          /\ UNCHANGED <<stderr_pipe, stderr_queue>>
    /\ UNCHANGED <<mon_pc, process, stdout_pipe, stdout_queue, stdout_thread, error_lines,
                   faststart_message_shown, written, progress_written>>
    /\ UNCHANGED notMonitor

\* ---- the main thread
\* ffmpeg.py 463-470: the loop ends once the process has exited and both
\* queues are empty
LoopCheck ==
    /\ mon_pc = "loop_check"
    /\ mon_pc' = IF process.state = "exited" /\ stdout_queue = <<>> /\ stderr_queue = <<>>
                 THEN "wait_join" ELSE "loop_stdout"
    /\ UNCHANGED <<process, stdout_pipe, stderr_pipe, stdout_queue, stderr_queue,
                   stdout_thread, stderr_thread, error_lines, faststart_message_shown,
                   written, progress_written>>
    /\ UNCHANGED notMonitor

\* ffmpeg.py 473-645: stdout_queue.get(timeout=0.01); a progress line is
\* only displayed
LoopStdout ==
    /\ mon_pc = "loop_stdout"
    /\ mon_pc' = "loop_stderr"
    /\ stdout_queue' = IF stdout_queue = <<>> THEN stdout_queue ELSE Tail(stdout_queue)
    /\ UNCHANGED <<process, stdout_pipe, stderr_pipe, stderr_queue,
                   stdout_thread, stderr_thread, error_lines, faststart_message_shown,
                   written, progress_written>>
    /\ UNCHANGED notMonitor

\* ffmpeg.py 648-717: stderr_queue.get(timeout=0.01); the line is
\* stripped, the faststart message is announced once, and the filter
\* decides whether the line is printed and recorded
LoopStderr ==
    /\ mon_pc = "loop_stderr"
    /\ mon_pc' = "loop_check"
    /\ IF stderr_queue = <<>>
       THEN UNCHANGED <<stderr_queue, error_lines, faststart_message_shown>>
       ELSE LET i == Head(stderr_queue)
                line == strip(Text(i))
            IN  /\ stderr_queue' = Tail(stderr_queue)
                /\ faststart_message_shown' =
                      (faststart_message_shown
                          \/ (Usable(i) /\ Contains(FASTSTART_MESSAGE, line)))
                /\ error_lines' = IF Usable(i) /\ MainLoopRecords(line)
                                  THEN Append(error_lines, i) ELSE error_lines
    /\ UNCHANGED <<process, stdout_pipe, stderr_pipe, stdout_queue,
                   stdout_thread, stderr_thread, written, progress_written>>
    /\ UNCHANGED notMonitor

\* ffmpeg.py 719-723: process.wait(), then join(timeout=1) of each reader
\* thread, which returns after a second whether or not the thread has ended
WaitJoin ==
    /\ mon_pc = "wait_join"
    /\ process.state = "exited"
    /\ mon_pc' = "drain_stdout"
    /\ UNCHANGED <<process, stdout_pipe, stderr_pipe, stdout_queue, stderr_queue,
                   stdout_thread, stderr_thread, error_lines, faststart_message_shown,
                   written, progress_written>>
    /\ UNCHANGED notMonitor

\* ffmpeg.py 725-824: the lines left in stdout_queue are taken one by one
DrainStdout ==
    /\ mon_pc = "drain_stdout"
    /\ IF stdout_queue = <<>>
       THEN mon_pc' = "drain_stderr" /\ UNCHANGED stdout_queue
       ELSE stdout_queue' = Tail(stdout_queue) /\ UNCHANGED mon_pc
    /\ UNCHANGED <<process, stdout_pipe, stderr_pipe, stderr_queue,
                   stdout_thread, stderr_thread, error_lines, faststart_message_shown,
                   written, progress_written>>
    /\ UNCHANGED notMonitor

\* ffmpeg.py 826-851: the lines left in stderr_queue are taken one by one
\* and filtered
DrainStderr ==
    /\ mon_pc = "drain_stderr"
    /\ IF stderr_queue = <<>>
       THEN mon_pc' = "return" /\ UNCHANGED <<stderr_queue, error_lines>>
       ELSE LET i == Head(stderr_queue)
                line == strip(Text(i))
            IN  /\ stderr_queue' = Tail(stderr_queue)
                /\ error_lines' = IF Usable(i) /\ DrainRecords(line)
                                  THEN Append(error_lines, i) ELSE error_lines
                /\ UNCHANGED mon_pc
    /\ UNCHANGED <<process, stdout_pipe, stderr_pipe, stdout_queue,
                   stdout_thread, stderr_thread, faststart_message_shown,
                   written, progress_written>>
    /\ UNCHANGED notMonitor

\* "\n".join(error_lines)
RECURSIVE JoinLines(_)
JoinLines(ls) ==
    IF ls = <<>> THEN <<>>
    ELSE IF Len(ls) = 1 THEN strip(Text(ls[1]))
    ELSE strip(Text(ls[1])) \o <<"\n">> \o JoinLines(Tail(ls))

\* ffmpeg.py 853-857: the value returned
error_output == JoinLines(error_lines)

MonitorReturns ==
    /\ mon_pc = "return"
    /\ mon_pc' = "returned"
    /\ UNCHANGED <<process, stdout_pipe, stderr_pipe, stdout_queue, stderr_queue,
                   stdout_thread, stderr_thread, error_lines, faststart_message_shown,
                   written, progress_written>>
    /\ UNCHANGED notMonitor

MonitorNext ==
    \/ WriteStderr
    \/ WriteStdout
    \/ ProcessExits
    \/ ReadStdout
    \/ ReadStderr
    \/ LoopCheck
    \/ LoopStdout
    \/ LoopStderr
    \/ WaitJoin
    \/ DrainStdout
    \/ DrainStderr
    \/ MonitorReturns

(***************************************************************************)
(* Regular expressions (Python's re module), as the detector uses them.    *)
(* A pattern is a sequence of elements; Match tries them by backtracking   *)
(* in re's order of preference (a lazy repetition from its shortest        *)
(* length, a greedy one from its longest, an optional part first with      *)
(* then without), so the groups of the first match are the groups re       *)
(* reports.  Texts are sequences of characters, positions count from 1,    *)
(* and a group is the pair of its first position and the position after    *)
(* its last.  File names hold no line break, so "." takes any character    *)
(* of the model's names and "$" is the end of the text.                    *)
(***************************************************************************)
Digits == {"0", "1", "2", "3", "4", "5", "6", "7", "8", "9"}

Separators == {" ", ".", "_", "-"}

IsClass(cls, ch) ==
    CASE cls = "any" -> ch # "\n"
      [] cls = "digit" -> ch \in Digits
      [] cls = "space" -> ch \in WhiteSpace
      [] cls = "sep" -> ch \in Separators
      [] cls = "not_brace" -> ch # "}"

Lit(ch) == [kind |-> "lit", ch |-> ch]

\* cls{min,max}, lazy or greedy; max = -1 is "no upper limit"
Rep(cls, min, max, lazy) ==
    [kind |-> "rep", cls |-> cls, min |-> min, max |-> max, lazy |-> lazy]

Group(name, body) ==
    <<[kind |-> "open", name |-> name]>> \o body \o <<[kind |-> "close", name |-> name]>>

Opt(body) == [kind |-> "opt", body |-> body]

EndOfText == [kind |-> "eos"]

\* (?<!\d) and (?!\d)
NotAfterDigit == [kind |-> "not_after_digit"]
NotBeforeDigit == [kind |-> "not_before_digit"]

RECURSIVE Literal(_)
Literal(cs) == IF cs = <<>> THEN <<>> ELSE <<Lit(Head(cs))>> \o Literal(Tail(cs))

\* re.IGNORECASE compares letters without their case
Fold(ch) == IF ch \in DOMAIN LowerChar THEN LowerChar[ch] ELSE ch

\* the length of the longest run of cls characters that starts at pos
RECURSIVE Run(_, _, _)
Run(cls, s, pos) ==
    IF pos <= Len(s) /\ IsClass(cls, s[pos]) THEN 1 + Run(cls, s, pos + 1) ELSE 0

NoMatch == [ok |-> FALSE, start |-> 0, end |-> 0, caps |-> <<>>]

RECURSIVE Match(_, _, _, _)
RECURSIVE TryCounts(_, _, _, _, _, _, _)
Match(rx, s, pos, caps) ==
    IF Len(rx) = 0
    THEN [ok |-> TRUE, start |-> 0, end |-> pos, caps |-> caps]
    ELSE LET el == Head(rx)
             rest == Tail(rx)
         IN  CASE el.kind = "lit" ->
                    IF pos <= Len(s) /\ Fold(s[pos]) = Fold(el.ch)
                    THEN Match(rest, s, pos + 1, caps) ELSE NoMatch
               [] el.kind = "open" ->
                    Match(rest, s, pos, (el.name :> <<pos, pos>>) @@ caps)
               [] el.kind = "close" ->
                    Match(rest, s, pos, (el.name :> <<caps[el.name][1], pos>>) @@ caps)
               [] el.kind = "rep" ->
                    LET run == Run(el.cls, s, pos)
                        hi == IF el.max >= 0 /\ el.max < run THEN el.max ELSE run
                    IN  IF hi < el.min THEN NoMatch
                        ELSE TryCounts(el, rest, s, pos, caps,
                                       IF el.lazy THEN el.min ELSE hi, hi)
               [] el.kind = "opt" ->
                    LET taken == Match(el.body \o rest, s, pos, caps)
                    IN  IF taken.ok THEN taken ELSE Match(rest, s, pos, caps)
               [] el.kind = "eos" ->
                    IF pos = Len(s) + 1 THEN Match(rest, s, pos, caps) ELSE NoMatch
               [] el.kind = "not_after_digit" ->
                    IF pos > 1 /\ s[pos - 1] \in Digits
                    THEN NoMatch ELSE Match(rest, s, pos, caps)
               [] el.kind = "not_before_digit" ->
                    IF pos <= Len(s) /\ s[pos] \in Digits
                    THEN NoMatch ELSE Match(rest, s, pos, caps)

TryCounts(el, rest, s, pos, caps, n, hi) ==
    LET m == Match(rest, s, pos + n, caps)
    IN  IF m.ok THEN m
        ELSE IF el.lazy
             THEN IF n < hi THEN TryCounts(el, rest, s, pos, caps, n + 1, hi) ELSE NoMatch
             ELSE IF n > el.min THEN TryCounts(el, rest, s, pos, caps, n - 1, hi) ELSE NoMatch

\* Pattern.match: a match that starts at the first character
MatchAtStart(rx, s) == [Match(rx, s, 1, <<>>) EXCEPT !.start = 1]

\* Pattern.fullmatch: a match of the whole text
FullMatch(rx, s) == MatchAtStart(rx \o <<EndOfText>>, s)

\* Pattern.search: the match with the leftmost start
RECURSIVE SearchFrom(_, _, _)
SearchFrom(rx, s, pos) ==
    IF pos > Len(s) + 1 THEN NoMatch
    ELSE LET m == Match(rx, s, pos, <<>>)
         IN  IF m.ok THEN [m EXCEPT !.start = pos] ELSE SearchFrom(rx, s, pos + 1)

Search(rx, s) == SearchFrom(rx, s, 1)

\* Match.group(name)
GroupText(m, s, name) == SubSeq(s, m.caps[name][1], m.caps[name][2] - 1)

\* the names of a pattern's groups, as Match.groupdict() has them as keys
RECURSIVE GroupNames(_)
GroupNames(rx) ==
    IF Len(rx) = 0 THEN <<>>
    ELSE (IF Head(rx).kind = "open" THEN <<Head(rx).name>> ELSE <<>>) \o GroupNames(Tail(rx))

HasGroup(rx, name) == \E i \in 1..Len(rx) : rx[i].kind = "open" /\ rx[i].name = name

\* int() of a text of ASCII digits
DigitValue ==
    ( "0" :> 0 @@ "1" :> 1 @@ "2" :> 2 @@ "3" :> 3 @@ "4" :> 4
   @@ "5" :> 5 @@ "6" :> 6 @@ "7" :> 7 @@ "8" :> 8 @@ "9" :> 9 )

RECURSIVE IntOf(_)
IntOf(cs) ==
    IF cs = <<>> THEN 0 ELSE 10 * IntOf(SubSeq(cs, 1, Len(cs) - 1)) + DigitValue[cs[Len(cs)]]
(***************************************************************************)
(* media_patterns.py: the texts of a detection.  None is NoneText for a    *)
(* text and NoneInt for a number.                                          *)
(***************************************************************************)
NoneText == <<"<None>">>
NoneInt == -1

Letters == DOMAIN LowerChar \cup { LowerChar[c] : c \in DOMAIN LowerChar }

UpperChar == [c \in { LowerChar[u] : u \in DOMAIN LowerChar } |->
                 CHOOSE u \in DOMAIN LowerChar : LowerChar[u] = c]

\* str.upper()
upperChars(cs) ==
    [i \in 1..Len(cs) |-> IF cs[i] \in DOMAIN UpperChar THEN UpperChar[cs[i]] ELSE cs[i]]

\* media_patterns.py 534-540
_safe_int(value) == IF value = NoneText THEN NoneInt ELSE IntOf(value)

\* str.strip(chars)
RECURSIVE StripLeft(_, _)
StripLeft(cs, chars) ==
    IF cs # <<>> /\ Head(cs) \in chars THEN StripLeft(Tail(cs), chars) ELSE cs

RECURSIVE StripRight(_, _)
StripRight(cs, chars) ==
    IF cs # <<>> /\ cs[Len(cs)] \in chars
    THEN StripRight(SubSeq(cs, 1, Len(cs) - 1), chars) ELSE cs

StripChars(cs, chars) == StripRight(StripLeft(cs, chars), chars)

\* re.sub(r"\[.*?\]", "", text)
RECURSIVE RemoveBrackets(_)
RemoveBrackets(cs) ==
    IF cs = <<>> THEN <<>>
    ELSE IF Head(cs) = "[" /\ \E j \in 2..Len(cs) : cs[j] = "]"
         THEN LET j == CHOOSE k \in 2..Len(cs) :
                          cs[k] = "]" /\ \A l \in 2..(k - 1) : cs[l] # "]"
              IN  RemoveBrackets(SubSeq(cs, j + 1, Len(cs)))
         ELSE <<Head(cs)>> \o RemoveBrackets(Tail(cs))

\* re.sub(r"\s+", " ", text)
RECURSIVE CollapseSpace(_)
CollapseSpace(cs) ==
    IF cs = <<>> THEN <<>>
    ELSE IF Head(cs) \in WhiteSpace
         THEN <<" ">> \o CollapseSpace(StripLeft(cs, WhiteSpace))
         ELSE <<Head(cs)>> \o CollapseSpace(Tail(cs))

\* re.sub(r"-[A-Za-z0-9]+$", "", text)
RemoveGroupSuffix(cs) ==
    LET starts == { i \in 1..(Len(cs) - 1) :
                      /\ cs[i] = "-"
                      /\ \A j \in (i + 1)..Len(cs) : cs[j] \in Letters \cup Digits }
    IN  IF starts = {} THEN cs
        ELSE SubSeq(cs, 1, (CHOOSE i \in starts : \A j \in starts : i <= j) - 1)

\* media_patterns.py 490-497
_clean_component(value) ==
    LET v0 == IF value = NoneText THEN <<>> ELSE value
        v1 == RemoveBrackets(v0)
        v2 == [i \in 1..Len(v1) |-> IF v1[i] \in {"_", "."} THEN " " ELSE v1[i]]
        v3 == CollapseSpace(v2)
        v4 == StripChars(v3, {" ", "-", "_", "."})
    IN  strip(RemoveGroupSuffix(v4))

\* RELEASE_TOKEN_BOUNDARY.split(text) without its empty tokens
RECURSIVE Tokens(_)
Tokens(cs) ==
    LET rest == StripLeft(cs, Separators)
        n == IF \E i \in 1..Len(rest) : rest[i] \in Separators
             THEN (CHOOSE i \in 1..Len(rest) :
                      rest[i] \in Separators /\ \A j \in 1..(i - 1) : rest[j] \notin Separators) - 1
             ELSE Len(rest)
    IN  IF rest = <<>> THEN <<>>
        ELSE <<SubSeq(rest, 1, n)>> \o Tokens(SubSeq(rest, n + 1, Len(rest)))

\* QUALITY_NUMBER_PATTERN.match(token): ^\d{3,4}P$ without case
IsQualityNumber(token) ==
    /\ Len(token) \in {4, 5}
    /\ \A i \in 1..(Len(token) - 1) : token[i] \in Digits
    /\ Fold(token[Len(token)]) = "p"

RECURSIVE JoinWithSpace(_)
JoinWithSpace(tokens) ==
    IF tokens = <<>> THEN <<>>
    ELSE IF Len(tokens) = 1 THEN tokens[1]
    ELSE tokens[1] \o <<" ">> \o JoinWithSpace(Tail(tokens))
\* media_patterns.py 31-68
QUALITY_BREAK_WORDS ==
    { <<"4","8","0","P">>, <<"7","2","0","P">>, <<"1","0","8","0","P">>, <<"2","1","6","0","P">>, <<"4","K">>, <<"8","K">>,
      <<"B","L","U","R","A","Y">>, <<"B","D","R","I","P">>, <<"B","R","R","I","P">>,
      <<"W","E","B">>, <<"W","E","B","R","I","P">>, <<"W","E","B","D","L">>, <<"W","E","B","-","D","L">>,
      <<"H","D","R">>, <<"H","D","R","1","0">>, <<"H","D","R","1","0","P","L","U","S">>,
      <<"D","O","L","B","Y">>, <<"D","V">>, <<"A","T","M","O","S">>, <<"D","D","P","5">>, <<"D","D","P","5",".","1">>,
      <<"T","R","U","E","H","D">>, <<"R","E","M","U","X">>, <<"U","H","D">>, <<"I","M","A","X">>,
      <<"A","M","Z","N">>, <<"H","M","A","X">>, <<"M","A","X">>, <<"H","U","L","U">>, <<"N","F">>, <<"N","E","T","F","L","I","X">>,
      <<"H","2","6","5">>, <<"X","2","6","5">>, <<"H","2","6","4">>, <<"X","2","6","4">>, <<"A","V","1">> }

\* the loop of 506-514 with continue in the place of break
RECURSIVE KeptTokens_skips_markers(_)
KeptTokens_skips_markers(tokens) ==
    IF tokens = <<>> THEN <<>>
    ELSE IF upperChars(Head(tokens)) \in QUALITY_BREAK_WORDS \/ IsQualityNumber(Head(tokens))
         THEN KeptTokens_skips_markers(Tail(tokens))
         ELSE <<Head(tokens)>> \o KeptTokens_skips_markers(Tail(tokens))

\* media_patterns.py 506-514: the tokens kept, up to the first quality word
RECURSIVE KeptTokens(_)
KeptTokens(tokens) ==
    IF tokens = <<>> THEN <<>>
    ELSE IF upperChars(Head(tokens)) \in QUALITY_BREAK_WORDS \/ IsQualityNumber(Head(tokens))
         THEN <<>>
         ELSE <<Head(tokens)>> \o KeptTokens(Tail(tokens))

\* media_patterns.py 500-515
_clean_episode_title(value) ==
    IF value = <<>> \/ value = NoneText THEN <<>>
    ELSE LET v1 == [i \in 1..Len(value) |-> IF value[i] \in {"(", ")"} THEN " " ELSE value[i]]
             v2 == RemoveBrackets(v1)
         IN  strip(JoinWithSpace(KeptTokens(Tokens(v2))))

\* YEAR_SUFFIX_PATTERN (line 71) and YEAR_TRAILING_PATTERN (line 72)
YEAR_SUFFIX_PATTERN ==
    <<Lit("(")>> \o Group("year", <<Rep("digit", 4, 4, FALSE)>>) \o <<Lit(")"), EndOfText>>

YEAR_TRAILING_PATTERN == Group("year", <<Rep("digit", 4, 4, FALSE)>>) \o <<EndOfText>>

\* media_patterns.py 518-531: the patterns search value.strip(), and the
\* start of the match cuts value itself
_split_trailing_year(value) ==
    IF value = <<>> THEN [name |-> <<>>, year |-> NoneInt]
    ELSE LET stripped == strip(value)
             suffix == Search(YEAR_SUFFIX_PATTERN, stripped)
             trailing == Search(YEAR_TRAILING_PATTERN, stripped)
             Cut(m) == [name |-> StripChars(SubSeq(value, 1, m.start - 1),
                                            {" ", "-", "_", "."}),
                        year |-> IntOf(GroupText(m, stripped, "year"))]
         IN  IF suffix.ok THEN Cut(suffix)
             ELSE IF trailing.ok THEN Cut(trailing)
             ELSE [name |-> value, year |-> NoneInt]

\* x or y, for texts: the first that is neither None nor empty, else the last
Or(x, y) == IF x = NoneText \/ x = <<>> THEN y ELSE x

EpisodeMetadata(series_name, episode_title, year, season_number, episode_number,
                air_date, pattern_name) ==
    [type |-> "EpisodeMetadata", series_name |-> series_name,
     episode_title |-> episode_title, year |-> year,
     season_number |-> season_number, episode_number |-> episode_number,
     air_date |-> air_date, pattern_name |-> pattern_name]

MovieMetadata(movie_title, year, edition, pattern_name) ==
    [type |-> "MovieMetadata", movie_title |-> movie_title, year |-> year,
     edition |-> edition, pattern_name |-> pattern_name]

(***************************************************************************)
(* media_patterns.py and metadata.py: build_pattern_regex.  A template is  *)
(* a sequence of characters; the compiled pattern is the sequence of the   *)
(* elements it appends to buffer.                                          *)
(***************************************************************************)
OneOrMoreLazy == <<Rep("any", 1, -1, TRUE)>>

DigitsExactly(n) == <<Rep("digit", n, n, FALSE)>>

TOKEN_SERIES == <<"<","S","e","r","i","e","s"," ","N","a","m","e",">">>
TOKEN_MOVIE == <<"<","M","o","v","i","e"," ","N","a","m","e",">">>
TOKEN_TITLE == <<"<","E","p","i","s","o","d","e"," ","N","a","m","e",">">>
TOKEN_YEAR == <<"<","Y","e","a","r",">">>
TOKEN_SEASON_2 == <<"<","s","e","a","s","o","n",":","2"," ","d","i","g","i","t","s",">">>
TOKEN_SEASON_1_2 == <<"<","s","e","a","s","o","n",":","1","-","2"," ","d","i","g","i","t","s",">">>
TOKEN_EPISODE_2 == <<"<","e","p","i","s","o","d","e",":","2"," ","d","i","g","i","t","s",">">>
TOKEN_EPISODE_1_2 == <<"<","e","p","i","s","o","d","e",":","1","-","2"," ","d","i","g","i","t","s",">">>
TOKEN_AIR_DATE == <<"<","A","i","r"," ","D","a","t","e",">">>
TOKEN_SPECS == <<"<","v","i","d","e","o"," ","s","p","e","c","s",">">>

\* media_patterns.py 17-28
PATTERN_TOKEN_MAP ==
    ( TOKEN_SERIES :> Group("series", OneOrMoreLazy)
   @@ TOKEN_MOVIE :> Group("movie", OneOrMoreLazy)
   @@ TOKEN_TITLE :> Group("title", OneOrMoreLazy)
   @@ TOKEN_YEAR :> Group("year", DigitsExactly(4))
   @@ TOKEN_SEASON_2 :> Group("season", DigitsExactly(2))
   @@ TOKEN_SEASON_1_2 :> Group("season", <<Rep("digit", 1, 2, FALSE)>>)
   @@ TOKEN_EPISODE_2 :> Group("episode", DigitsExactly(2))
   @@ TOKEN_EPISODE_1_2 :> Group("episode", <<Rep("digit", 1, 2, FALSE)>>)
   @@ TOKEN_AIR_DATE :> Group("air_date", DigitsExactly(4) \o <<Lit("-")>> \o DigitsExactly(2)
                                            \o <<Lit("-")>> \o DigitsExactly(2))
   @@ TOKEN_SPECS :> Group("specs", OneOrMoreLazy) )

\* metadata.py 26-35
METADATA_PATTERN_TOKEN_MAP ==
    [t \in DOMAIN PATTERN_TOKEN_MAP \ {TOKEN_MOVIE, TOKEN_AIR_DATE} |-> PATTERN_TOKEN_MAP[t]]

TokenMap(module) ==
    IF module = "media_patterns" THEN PATTERN_TOKEN_MAP ELSE METADATA_PATTERN_TOKEN_MAP

\* str.find(">", index) on positions that count from 1: 0 when there is none
Find(cs, ch, from) ==
    IF \E i \in from..Len(cs) : cs[i] = ch
    THEN CHOOSE i \in from..Len(cs) : cs[i] = ch /\ \A j \in from..(i - 1) : cs[j] # ch
    ELSE 0

\* re.compile rejects a pattern that defines a group name twice
CompileError(rx) ==
    \E i, j \in 1..Len(rx) :
        i < j /\ rx[i].kind = "open" /\ rx[j].kind = "open" /\ rx[i].name = rx[j].name

(***************************************************************************)
(* media_patterns.py: the detection strategies                             *)
(***************************************************************************)
MOVIE == "movie"
TV_SHOW == "tv_show"

MetadataDetection(media_type, metadata, pattern_name, matched, is_manual) ==
    [media_type |-> media_type, metadata |-> metadata, pattern_name |-> pattern_name,
     matched |-> matched, is_manual |-> is_manual]

\* the value None where a detection or a metadata object is expected
NoDetection == [media_type |-> "None"]
NoMetadata == [type |-> "None"]

\* Path.stem: the name without its last suffix
Stem(name) ==
    LET dots == { i \in 1..Len(name) : name[i] = "." }
        last == IF dots = {} THEN 0 ELSE CHOOSE i \in dots : \A j \in dots : j <= i
    IN  IF 1 < last /\ last < Len(name) THEN SubSeq(name, 1, last - 1) ELSE name

\* Match.group(name) of a group that an optional part holds
GroupOrNone(m, s, name) ==
    IF name \in DOMAIN m.caps THEN GroupText(m, s, name) ELSE NoneText

OptionalSpace == <<Rep("space", 0, -1, FALSE)>>

\* media_patterns.py 296-299
DASH_PATTERN ==
    Group("series", OneOrMoreLazy) \o OptionalSpace \o <<Lit("-")>> \o OptionalSpace
    \o <<Lit("S")>> \o Group("season", <<Rep("digit", 1, 2, FALSE)>>)
    \o <<Lit("E")>> \o Group("episode", DigitsExactly(2))
    \o OptionalSpace \o <<Lit("-")>> \o OptionalSpace
    \o Group("title", <<Rep("any", 1, -1, FALSE)>>) \o <<EndOfText>>

\* media_patterns.py 74-77
SEASON_EPISODE_PATTERN ==
    <<Lit("S")>> \o Group("season", <<Rep("digit", 1, 2, FALSE)>>)
    \o <<Lit("E")>> \o Group("episode", DigitsExactly(2))

ALT_SEASON_EPISODE_PATTERN ==
    Group("season", <<Rep("digit", 1, 2, FALSE)>>) \o <<Lit("x")>>
    \o Group("episode", DigitsExactly(2))

DATE_EPISODE_PATTERN == PATTERN_TOKEN_MAP[TOKEN_AIR_DATE]

COMBINED_EPISODE_PATTERN ==
    <<NotAfterDigit>> \o Group("combined", DigitsExactly(3)) \o <<NotBeforeDigit>>

\* media_patterns.py 424-443
_build_episode_from_groups(raw_series, raw_title, season_value, episode_value, pattern_name) ==
    LET split == _split_trailing_year(raw_series)
        cleaned_series == _clean_component(split.name)
        cleaned_title == _clean_episode_title(raw_title)
    IN  EpisodeMetadata(cleaned_series, Or(cleaned_title, cleaned_series), split.year,
                        _safe_int(season_value), _safe_int(episode_value),
                        NoneText, pattern_name)

\* media_patterns.py 446-465
_build_episode_from_parts(series_part, suffix_part, season_value, episode_value, pattern_name) ==
    LET split == _split_trailing_year(series_part)
        cleaned_series == _clean_component(split.name)
        cleaned_title == _clean_episode_title(suffix_part)
    IN  EpisodeMetadata(Or(cleaned_series, Or(suffix_part, <<>>)),
                        Or(cleaned_title, Or(cleaned_series, Or(suffix_part, <<>>))),
                        split.year, _safe_int(season_value), _safe_int(episode_value),
                        NoneText, pattern_name)

Before(m, s) == SubSeq(s, 1, m.start - 1)
After(m, s) == SubSeq(s, m.end, Len(s))

\* media_patterns.py 296-308
tv_dash_title(name) ==
    LET m == MatchAtStart(DASH_PATTERN, name)
    IN  IF m.ok
        THEN _build_episode_from_groups(GroupText(m, name, "series"), GroupText(m, name, "title"),
                                        GroupText(m, name, "season"),
                                        GroupText(m, name, "episode"), "tv_dash_title")
        ELSE NoMetadata

\* media_patterns.py 310-320
tv_standard(name) ==
    LET m == Search(SEASON_EPISODE_PATTERN, name)
    IN  IF m.ok
        THEN _build_episode_from_parts(Before(m, name), After(m, name),
                                       GroupText(m, name, "season"),
                                       GroupText(m, name, "episode"), "tv_standard")
        ELSE NoMetadata

\* media_patterns.py 322-332
tv_alt_1x(name) ==
    LET m == Search(ALT_SEASON_EPISODE_PATTERN, name)
    IN  IF m.ok
        THEN _build_episode_from_parts(Before(m, name), After(m, name),
                                       GroupText(m, name, "season"),
                                       GroupText(m, name, "episode"), "tv_alt_1x")
        ELSE NoMetadata

\* media_patterns.py 341-345: the run follows an X or an H
IsCodecIndicator_ignored(name, m) == FALSE

IsCodecIndicator(name, m) ==
    m.start > 1 /\ upperChars(<<name[m.start - 1]>>)[1] \in {"X", "H"}

\* media_patterns.py 348-352: the run is followed by a P
IsResolution(name, m) ==
    m.end <= Len(name) /\ upperChars(<<name[m.end]>>)[1] = "P"

\* media_patterns.py 355-359
IsYear(value) == 1900 <= value /\ value <= 2099

\* 334-372 with a search that goes on to the next run when a guard rejects
\* the first
tv_three_digit_next_run(name) ==
    LET accepted == { i \in 1..(Len(name) - 2) :
                        /\ \A k \in i..(i + 2) : name[k] \in Digits
                        /\ i > 1 => name[i - 1] \notin Digits \cup {"X", "x", "H", "h"}
                        /\ i + 3 <= Len(name) => name[i + 3] \notin Digits \cup {"P", "p"} }
        i == CHOOSE a \in accepted : \A b \in accepted : a <= b
    IN  IF accepted # {}
        THEN _build_episode_from_parts(SubSeq(name, 1, i - 1), SubSeq(name, i + 3, Len(name)),
                                       <<name[i]>>, SubSeq(name, i + 1, i + 2),
                                       "tv_three_digit")
        ELSE NoMetadata

\* media_patterns.py 334-372: only the first isolated run of three digits is
\* looked at
tv_three_digit(name) ==
    LET m == Search(COMBINED_EPISODE_PATTERN, name)
        combined_value == GroupText(m, name, "combined")
    IN  IF /\ m.ok
           /\ ~IsCodecIndicator(name, m)
           /\ ~IsResolution(name, m)
           /\ ~IsYear(IntOf(combined_value))
        THEN _build_episode_from_parts(Before(m, name), After(m, name),
                                       <<combined_value[1]>>, Tail(combined_value),
                                       "tv_three_digit")
        ELSE NoMetadata

\* media_patterns.py 374-389
tv_airdate(name) ==
    LET m == Search(DATE_EPISODE_PATTERN, name)
        air_date == GroupText(m, name, "air_date")
    IN  IF m.ok
        THEN [_build_episode_from_parts(Before(m, name), After(m, name),
                                        NoneText, NoneText, "tv_airdate")
                 EXCEPT !.air_date = air_date,
                        !.year = _safe_int(SubSeq(air_date, 1, 4))]
        ELSE NoMetadata

OptionalRest ==
    Opt(<<Rep("sep", 1, -1, FALSE)>> \o Group("rest", <<Rep("any", 1, -1, FALSE)>>))

\* media_patterns.py 395-398
PAREN_PATTERN ==
    Group("title", OneOrMoreLazy) \o OptionalSpace \o <<Lit("(")>>
    \o Group("year", DigitsExactly(4)) \o <<Lit(")"), OptionalRest, EndOfText>>

\* media_patterns.py 408-411
DOTTED_PATTERN ==
    Group("title", <<Rep("any", 1, -1, FALSE)>>) \o <<Rep("sep", 1, 1, FALSE)>>
    \o Group("year", DigitsExactly(4)) \o <<OptionalRest, EndOfText>>

\* media_patterns.py 70
EDITION_BLOCK_PATTERN ==
    Literal(<<"{","e","d","i","t","i","o","n","-">>) \o Group("edition", <<Rep("not_brace", 1, -1, FALSE)>>)
    \o <<Lit("}")>>

\* media_patterns.py 468-487
_build_movie_from_groups(raw_title, raw_year, rest, pattern_name) ==
    LET edition_match == Search(EDITION_BLOCK_PATTERN, rest)
        edition == IF rest # NoneText /\ rest # <<>> /\ edition_match.ok
                   THEN strip(GroupText(edition_match, rest, "edition"))
                   ELSE NoneText
    IN  MovieMetadata(_clean_component(raw_title), _safe_int(raw_year), edition, pattern_name)

MovieStrategy(name, rx, pattern_name) ==
    LET m == MatchAtStart(rx, name)
    IN  IF m.ok
        THEN _build_movie_from_groups(GroupText(m, name, "title"), GroupText(m, name, "year"),
                                      GroupOrNone(m, name, "rest"), pattern_name)
        ELSE NoMetadata

\* media_patterns.py 399-406
movie_paren_year(name) == MovieStrategy(name, PAREN_PATTERN, "movie_paren_year")

\* media_patterns.py 412-419
movie_dotted_year(name) == MovieStrategy(name, DOTTED_PATTERN, "movie_dotted_year")

\* the strategies in the order in which the code tries them
TvStrategies_marker_order ==
    <<"tv_alt_1x", "tv_three_digit", "tv_dash_title", "tv_standard", "tv_airdate">>

TvStrategies == <<"tv_dash_title", "tv_standard", "tv_alt_1x", "tv_three_digit", "tv_airdate">>
MovieStrategies == <<"movie_paren_year", "movie_dotted_year">>

Strategy(strategy, name) ==
    CASE strategy = "tv_dash_title" -> tv_dash_title(name)
      [] strategy = "tv_standard" -> tv_standard(name)
      [] strategy = "tv_alt_1x" -> tv_alt_1x(name)
      [] strategy = "tv_three_digit" -> tv_three_digit(name)
      [] strategy = "tv_airdate" -> tv_airdate(name)
      [] strategy = "movie_paren_year" -> movie_paren_year(name)
      [] strategy = "movie_dotted_year" -> movie_dotted_year(name)

\* media_patterns.py 151, 165 and 170: what the fields of the pattern make
\* of a match
ManualKind_title_first(regex) ==
    LET has(field) == HasGroup(regex, field)
    IN  IF has("season") /\ has("episode") THEN "episode"
        ELSE IF has("title") THEN "title"
        ELSE IF has("movie") \/ (has("series") /\ has("year") /\ ~has("episode")) THEN "movie"
        ELSE "None"

ManualKind(regex) ==
    LET has(field) == HasGroup(regex, field)
    IN  IF has("season") /\ has("episode") THEN "episode"
        ELSE IF has("movie") \/ (has("series") /\ has("year") /\ ~has("episode")) THEN "movie"
        ELSE IF has("title") /\ ~has("movie") THEN "title"
        ELSE "None"

\* media_patterns.py 166 and 175: a subscript on a field that the pattern
\* lacks
ManualKeyError(regex) ==
    \/ ManualKind(regex) = "movie" /\ ~HasGroup(regex, "movie") /\ ~HasGroup(regex, "series")
    \/ ManualKind(regex) = "title" /\ ~HasGroup(regex, "title")

\* media_patterns.py 144-189
match_manual_pattern(name, regex) ==
    LET match == FullMatch(regex, name)
        get(field) == IF HasGroup(regex, field) THEN GroupText(match, name, field) ELSE NoneText
        stem == Stem(name)
        kind == ManualKind(regex)
        metadata ==
            CASE kind = "episode" ->
                   EpisodeMetadata(_clean_component(Or(get("series"), Or(get("movie"), stem))),
                                   Or(_clean_component(Or(get("title"), <<>>)), stem),
                                   _safe_int(get("year")), _safe_int(get("season")),
                                   _safe_int(get("episode")), get("air_date"), NoneText)
              [] kind = "movie" ->
                   MovieMetadata(_clean_component(Or(get("movie"), get("series"))),
                                 _safe_int(get("year")), NoneText, NoneText)
              [] kind = "title" ->
                   EpisodeMetadata(_clean_component(Or(get("series"), stem)),
                                   _clean_component(get("title")),
                                   _safe_int(get("year")), _safe_int(get("season")),
                                   _safe_int(get("episode")), get("air_date"), NoneText)
              [] OTHER -> NoMetadata
    IN  IF ~match.ok \/ metadata.type = "None" THEN NoDetection
        ELSE MetadataDetection(IF metadata.type = "MovieMetadata" THEN MOVIE ELSE TV_SHOW,
                               metadata, "manual-pattern", TRUE, TRUE)

\* metadata.py 84-109: a missing group is a KeyError, which gives None
parse_episode_metadata(name, regex) ==
    LET match == FullMatch(regex, name)
        group(field) == GroupText(match, name, field)
    IN  IF ~match.ok \/ \E field \in {"series", "title", "year", "season", "episode"} :
                             ~HasGroup(regex, field)
        THEN NoMetadata
        ELSE [type |-> "EpisodeMetadata", series_name |-> strip(group("series")),
              episode_title |-> strip(group("title")), year |-> IntOf(group("year")),
              season_number |-> IntOf(group("season")),
              episode_number |-> IntOf(group("episode"))]

\* media_patterns.py 198-217: the override is enforced on a manual detection
EnforceOverride_not_enforced(manual, override) == manual

EnforceOverride_keeps_metadata(manual, override) ==
    IF override = "None" THEN manual
    ELSE [manual EXCEPT !.media_type = IF override = "show" THEN TV_SHOW ELSE MOVIE]

EnforceOverride(manual, override) ==
    LET override_type == IF override = "show" THEN TV_SHOW ELSE MOVIE
        md == manual.metadata
    IN  IF override = "None" \/ manual.media_type = override_type
        THEN manual
        ELSE [manual EXCEPT
                !.media_type = override_type,
                !.metadata =
                    IF override_type = TV_SHOW /\ md.type = "MovieMetadata"
                    THEN EpisodeMetadata(md.movie_title, md.movie_title, md.year,
                                         NoneInt, NoneInt, NoneText, NoneText)
                    ELSE IF override_type = MOVIE /\ md.type = "EpisodeMetadata"
                    THEN MovieMetadata(md.series_name, md.year, NoneText, NoneText)
                    ELSE md]

(***************************************************************************)
(* The metadata detector, step by step: detect_metadata of                 *)
(* media_patterns.py, and the two calls of transcode.py 692-693 on         *)
(* metadata.py.                                                            *)
(***************************************************************************)
DEFAULT_FILENAME_PATTERN ==
    <<"<","S","e","r","i","e","s"," ","N","a","m","e",">"," ","(","<","Y","e","a","r",">",")"," ","-"," ","S","<","s","e","a","s","o","n",":","2"," ","d","i","g","i","t","s",">","E","<","e","p","i","s","o","d","e",":","2"," ","d","i","g","i","t","s",">"," ","-"," ","<","E","p","i","s","o","d","e"," ","N","a","m","e",">"," ","(","<","v","i","d","e","o"," ","s","p","e","c","s",">",")",".","m","k","v">>

\* the file names of the model
FileNames ==
    { <<"S","h","o","w"," ","(","2","0","1","9",")"," ","-"," ","S","0","1","E","0","2"," ","-"," ","P","i","l","o","t"," ","(","1","0","8","0","p",")",".","m","k","v">>,
      <<"S","h","o","w"," ","-"," ","S","0","1","E","0","2"," ","-"," ","P","i","l","o","t",".","m","k","v">>,
      <<"S","h","o","w",".","S","0","2","E","0","5",".","7","2","0","p",".","W","E","B",".","m","k","v">>,
      <<"S","h","o","w",".","1","x","0","2",".","s","0","3","e","0","4",".","m","k","v">>,
      <<"S","h","o","w",".","1","x","0","2",".","7","2","0","p",".","m","k","v">>,
      <<"S","h","o","w",".","3","0","5",".","1","0","8","0","p",".","m","k","v">>,
      <<"S","h","o","w"," ","2","0","2","5","-","1","1","-","2","0"," ","3","0","5",".","m","k","v">>,
      <<"D","a","i","l","y"," ","-"," ","2","0","2","5","-","1","1","-","2","0"," ","-"," ","G","u","e","s","t",".","m","k","v">>,
      <<"F","i","l","m"," ","2","0","2","4"," ","X","2","6","5"," ","H","E","V","C",".","m","k","v">>,
      <<"F","i","l","m"," ","2","0","2","4"," ","h","2","6","4",".","m","k","v">>,
      <<"C","l","i","p",".","H","2","6","5",".","m","k","v">>,
      <<"S","h","o","w",".","x","2","6","5",".","3","0","5",".","m","k","v">>,
      <<"S","h","o","w",".","7","2","0","p",".","m","k","v">>,
      <<"F","i","l","m"," ","(","2","0","2","0",")"," ","-"," ","E","x","t","r","a",".","m","k","v">>,
      <<"F","i","l","m"," ","(","2","0","2","0",")"," ","{","e","d","i","t","i","o","n","-","C","u","t","}",".","m","k","v">>,
      <<"S","h","o","w"," ","2","0","1","9"," ","S","0","1","E","0","2",".","m","k","v">>,
      <<"S","h","o","w"," ","(","2","0","1","9",")"," ","1","x","0","2",".","m","k","v">>,
      <<"S","h","o","w",".","2","0","1","9",".","S","0","1","E","0","2",".","m","k","v">>,
      <<"S","h","o","w","_","2","0","1","9","_","S","0","1","E","0","2",".","m","k","v">>,
      <<"S","h","o","w"," ","2","0","1","9"," ","L","i","v","e"," ","S","0","1","E","0","2",".","m","k","v">>,
      <<"S","h","o","w",".","S","0","1","E","0","2",".","P","i","l","o","t",".","1","0","8","0","p",".","E","x","t","r","a",".","m","k","v">>,
      <<"S","0","1","E","0","2",".","7","2","0","p",".","m","k","v">>,
      <<"S","h","o","w",".","7","2","0","p",".","3","0","5",".","m","k","v">>,
      <<"U","n","k","n","o","w","n",".","m","k","v">> }

\* the templates of the model: None, the default, the templates of the
\* tests and of the help text, templates without a season and episode pair,
\* and templates that build_pattern_regex rejects
Templates ==
    { NoneText,
      DEFAULT_FILENAME_PATTERN,
      <<"<","S","e","r","i","e","s"," ","N","a","m","e",">"," ","-"," ","S","<","s","e","a","s","o","n",":","1","-","2"," ","d","i","g","i","t","s",">","E","<","e","p","i","s","o","d","e",":","1","-","2"," ","d","i","g","i","t","s",">"," ","-"," ","<","E","p","i","s","o","d","e"," ","N","a","m","e",">",".","m","k","v">>,
      <<"<","M","o","v","i","e"," ","N","a","m","e",">"," ","(","<","Y","e","a","r",">",")"," ","-"," ","<","E","p","i","s","o","d","e"," ","N","a","m","e",">",".","m","k","v">>,
      <<"<","M","o","v","i","e"," ","N","a","m","e",">",".","s","<","s","e","a","s","o","n",":","2"," ","d","i","g","i","t","s",">","e","<","e","p","i","s","o","d","e",":","2"," ","d","i","g","i","t","s",">",".","m","k","v">>,
      <<"<","S","e","r","i","e","s"," ","N","a","m","e",">"," ","<","A","i","r"," ","D","a","t","e",">"," ","<","v","i","d","e","o"," ","s","p","e","c","s",">",".","m","k","v">>,
      <<"<","S","e","r","i","e","s"," ","N","a","m","e",">"," ","(","<","Y","e","a","r",">",")"," ","<","v","i","d","e","o"," ","s","p","e","c","s",">",".","m","k","v">>,
      <<"<","E","p","i","s","o","d","e"," ","N","a","m","e",">",".","m","k","v">>,
      <<"<","S","e","r","i","e","s"," ","N","a","m","e",">",".","m","k","v">>,
      <<"<","S","e","r","i","e","s"," ","N","a","m","e",">"," ","-"," ","<","T","i","t","l","e",">",".","m","k","v">>,
      <<"<","S","e","r","i","e","s"," ","N","a","m","e",">"," ","(","<","Y","e","a","r">>,
      <<"<","Y","e","a","r",">"," ","-"," ","<","Y","e","a","r",">",".","m","k","v">> }

Overrides == {"None", "show", "movie"}

DetectInit ==
    /\ source \in FileNames
    /\ manual_pattern \in Templates
    /\ media_type_override \in Overrides
    /\ pattern_module \in {"media_patterns", "metadata"}
    /\ pattern_module = "metadata" =>
          manual_pattern # NoneText /\ media_type_override = "None"
    /\ dpc = IF pattern_module = "metadata" THEN "build_pattern_regex" ELSE "detect_metadata"
    /\ index = 0
    /\ buffer = <<>>
    /\ strategies = <<>>
    /\ consulted = <<>>
    /\ manual_detection = NoDetection
    /\ detection = NoDetection
    /\ raised = ""

DetectIdle ==
    /\ source = <<>>
    /\ manual_pattern = NoneText
    /\ media_type_override = "None"
    /\ pattern_module = "media_patterns"
    /\ dpc = "idle"
    /\ index = 0
    /\ buffer = <<>>
    /\ strategies = <<>>
    /\ consulted = <<>>
    /\ manual_detection = NoDetection
    /\ detection = NoDetection
    /\ raised = ""

DetectStep(from, to) ==
    /\ dpc = from
    /\ dpc' = to
    /\ UNCHANGED <<source, manual_pattern, media_type_override, pattern_module>>
    /\ UNCHANGED notDetect

\* media_patterns.py 193-194
DetectMetadata ==
    /\ IF manual_pattern # NoneText /\ manual_pattern # <<>>
       THEN DetectStep("detect_metadata", "build_pattern_regex")
       ELSE DetectStep("detect_metadata", "override")
    /\ UNCHANGED <<index, buffer, strategies, consulted, manual_detection, detection, raised>>

\* media_patterns.py 130-133, metadata.py 73-76: a token of the map gives
\* its pattern, any other token is not supported
TranslateToken_as_literal(token, module) ==
    [supported |-> TRUE,
     regex |-> IF token \in DOMAIN TokenMap(module)
               THEN TokenMap(module)[token] ELSE Literal(token)]

TranslateToken(token, module) ==
    IF token \in DOMAIN TokenMap(module)
    THEN [supported |-> TRUE, regex |-> TokenMap(module)[token]]
    ELSE [supported |-> FALSE, regex |-> <<>>]

\* media_patterns.py 124-137, metadata.py 68-80: one turn of the loop
BuildPatternLoop ==
    /\ dpc = "build_pattern_regex"
    /\ index < Len(manual_pattern)
    /\ LET char == manual_pattern[index + 1]
           end_index == Find(manual_pattern, ">", index + 1)
           token == SubSeq(manual_pattern, index + 1, end_index)
           translated == TranslateToken(token, pattern_module)
       IN  IF char = "<"
           THEN IF end_index = 0
                THEN /\ DetectStep("build_pattern_regex", "raised")
                     /\ raised' = "ValueError"
                     /\ UNCHANGED <<index, buffer>>
                ELSE IF ~translated.supported
                THEN /\ DetectStep("build_pattern_regex", "raised")
                     /\ raised' = IF pattern_module = "media_patterns"
                                  THEN "MetadataError" ELSE "ValueError"
                     /\ UNCHANGED <<index, buffer>>
                ELSE /\ DetectStep("build_pattern_regex", "build_pattern_regex")
                     /\ buffer' = buffer \o translated.regex
                     /\ index' = end_index
                     /\ UNCHANGED raised
           ELSE /\ DetectStep("build_pattern_regex", "build_pattern_regex")
                /\ buffer' = Append(buffer, Lit(char))
                /\ index' = index + 1
                /\ UNCHANGED raised
    /\ UNCHANGED <<strategies, consulted, manual_detection, detection>>

\* media_patterns.py 138-141, metadata.py 81: re.compile
BuildPatternCompile ==
    /\ dpc = "build_pattern_regex"
    /\ index >= Len(manual_pattern)
    /\ IF CompileError(buffer)
       THEN /\ DetectStep("build_pattern_regex", "raised")
            /\ raised' = IF pattern_module = "media_patterns" THEN "MetadataError" ELSE "re.error"
       ELSE /\ DetectStep("build_pattern_regex", "match")
            /\ UNCHANGED raised
    /\ UNCHANGED <<index, buffer, strategies, consulted, manual_detection, detection>>

\* media_patterns.py 195-218.  fields["series"] (line 166) and
\* fields["title"] (line 175) raise KeyError for a field the pattern lacks.
MatchManualPattern ==
    /\ pattern_module = "media_patterns"
    /\ dpc = "match"
    /\ IF FullMatch(buffer, source).ok /\ ManualKeyError(buffer)
       THEN /\ DetectStep("match", "raised")
            /\ raised' = "KeyError"
            /\ UNCHANGED <<manual_detection, detection>>
       ELSE /\ manual_detection' = match_manual_pattern(source, buffer)
            /\ UNCHANGED raised
            /\ IF manual_detection' # NoDetection
               THEN /\ DetectStep("match", "returned")
                    /\ detection' = EnforceOverride(manual_detection', media_type_override)
               ELSE /\ DetectStep("match", "override")
                    /\ UNCHANGED detection
    /\ UNCHANGED <<index, buffer, strategies, consulted>>

\* transcode.py 693, metadata.py 84-109
ParseEpisodeMetadata ==
    /\ pattern_module = "metadata"
    /\ DetectStep("match", "returned")
    /\ detection' = parse_episode_metadata(source, buffer)
    /\ UNCHANGED <<index, buffer, strategies, consulted, manual_detection, raised>>

\* media_patterns.py 221-224, 248-249, 268 and 273-274: the strategies that
\* the call will try
SelectStrategies ==
    /\ DetectStep("override", "strategies")
    /\ strategies' = CASE media_type_override = "show" -> TvStrategies
                       [] media_type_override = "movie" -> MovieStrategies
                       [] OTHER -> TvStrategies \o MovieStrategies
    /\ UNCHANGED <<index, buffer, consulted, manual_detection, detection, raised>>

IsTvStrategy(strategy) == \E i \in 1..Len(TvStrategies) : TvStrategies[i] = strategy

\* media_patterns.py 295-421 with 225-232, 250-257 and 275-291: the next
\* strategy is tried, and its result is returned if it has one
TryStrategy ==
    /\ dpc = "strategies"
    /\ strategies # <<>>
    /\ consulted' = Append(consulted, Head(strategies))
    /\ LET found == Strategy(Head(strategies), Stem(source))
       IN  IF found # NoMetadata
           THEN /\ DetectStep("strategies", "returned")
                /\ detection' = MetadataDetection(
                                   IF IsTvStrategy(Head(strategies)) THEN TV_SHOW ELSE MOVIE,
                                   found, found.pattern_name, TRUE, FALSE)
                /\ UNCHANGED strategies
           ELSE /\ DetectStep("strategies", "strategies")
                /\ strategies' = Tail(strategies)
                /\ UNCHANGED detection
    /\ UNCHANGED <<index, buffer, manual_detection, raised>>

\* media_patterns.py 233-247, 258-266 and 292: no strategy matched
NoStrategyMatched ==
    /\ dpc = "strategies"
    /\ strategies = <<>>
    /\ DetectStep("strategies", "returned")
    /\ LET fallback_title == _clean_component(Stem(source))
       IN  detection' =
             CASE media_type_override = "show" ->
                    MetadataDetection(TV_SHOW,
                        EpisodeMetadata(fallback_title, fallback_title, NoneInt, NoneInt,
                                        NoneInt, NoneText, NoneText),
                        "override-show", FALSE, TRUE)
               [] media_type_override = "movie" ->
                    MetadataDetection(MOVIE,
                        MovieMetadata(fallback_title, NoneInt, NoneText, NoneText),
                        "override-movie", FALSE, TRUE)
               [] OTHER -> NoDetection
    /\ UNCHANGED <<index, buffer, strategies, consulted, manual_detection, raised>>

DetectNext ==
    \/ DetectMetadata
    \/ BuildPatternLoop
    \/ BuildPatternCompile
    \/ MatchManualPattern
    \/ ParseEpisodeMetadata
    \/ SelectStrategies
    \/ TryStrategy
    \/ NoStrategyMatched

(***************************************************************************)
(* Encoder selection, step by step: one call of detect_gpu_encoder         *)
(* (utils.py 196-225) with get_ffmpeg_path (utils.py 140-160).             *)
(*   bundled_path, system_path  the ffmpeg binary that                     *)
(*         _get_bundled_binary_path and shutil.which find, "None" if none; *)
(*   probes  the outcome of each "ffmpeg -hide_banner -encoders" run so    *)
(*         far: the set of the priority list's names that occur in its     *)
(*         output, or the exception that subprocess.run raised.            *)
(***************************************************************************)
HardwareEncoders == {"hevc_nvenc", "hevc_amf", "hevc_qsv", "hevc_videotoolbox"}

\* subprocess.run(..., check=True): the output of a run that exits with 0,
\* CalledProcessError for another exit code, and the OSError of a binary
\* that cannot be started: FileNotFoundError when it is gone,
\* PermissionError when it is not executable
ProbeOutcomes ==
    { [raised |-> "", stdout |-> listed] : listed \in SUBSET HardwareEncoders }
      \cup { [raised |-> x, stdout |-> {}] :
               x \in {"CalledProcessError", "FileNotFoundError", "PermissionError"} }

EncoderInit ==
    /\ epc = "get_ffmpeg_path"
    /\ bundled_path \in {"None", "bundled"}
    /\ system_path \in {"None", "system"}
    /\ ffmpeg_path = "None"
    /\ probes = <<>>
    /\ encoder_ret = "None"
    /\ encoder_raised = ""

EncoderIdle ==
    /\ epc = "idle"
    /\ bundled_path = "None"
    /\ system_path = "None"
    /\ ffmpeg_path = "None"
    /\ probes = <<>>
    /\ encoder_ret = "None"
    /\ encoder_raised = ""

\* utils.py 210 with 140-160: the bundled binary, else the system binary,
\* else FFmpegError; the call stands before the loop and outside its try
GetFfmpegPath ==
    /\ epc = "get_ffmpeg_path"
    /\ IF bundled_path # "None"
       THEN /\ ffmpeg_path' = bundled_path
            /\ epc' = "probe"
            /\ UNCHANGED encoder_raised
       ELSE IF system_path # "None"
       THEN /\ ffmpeg_path' = system_path
            /\ epc' = "probe"
            /\ UNCHANGED encoder_raised
       ELSE /\ epc' = "raised"
            /\ encoder_raised' = "FFmpegError"
            /\ UNCHANGED ffmpeg_path
    /\ UNCHANGED <<bundled_path, system_path, probes, encoder_ret>>
    /\ UNCHANGED notEncoder

\* the except clause of utils.py 222 catches these two only
CaughtByProbe(x) == x \in {"CalledProcessError", "FileNotFoundError"}

\* utils.py 212-223: one turn of the loop over the four encoders
ProbeEncoder ==
    /\ epc = "probe"
    /\ Len(probes) < Len(GpuEncoderPriority)
    /\ \E outcome \in ProbeOutcomes :
        /\ probes' = Append(probes, outcome)
        /\ IF outcome.raised = ""
           THEN IF GpuEncoderPriority[Len(probes) + 1] \in outcome.stdout
                THEN /\ encoder_ret' = GpuEncoderPriority[Len(probes) + 1]
                     /\ epc' = "returned"
                     /\ UNCHANGED encoder_raised
                ELSE UNCHANGED <<epc, encoder_ret, encoder_raised>>
           ELSE IF CaughtByProbe(outcome.raised)
                THEN UNCHANGED <<epc, encoder_ret, encoder_raised>>
                ELSE /\ epc' = "raised"
                     /\ encoder_raised' = outcome.raised
                     /\ UNCHANGED encoder_ret
    /\ UNCHANGED <<bundled_path, system_path, ffmpeg_path>>
    /\ UNCHANGED notEncoder

\* utils.py 225: no encoder of the list was found
ReturnSoftwareEncoder ==
    /\ epc = "probe"
    /\ Len(probes) = Len(GpuEncoderPriority)
    /\ encoder_ret' = "libx265"
    /\ epc' = "returned"
    /\ UNCHANGED <<bundled_path, system_path, ffmpeg_path, probes, encoder_raised>>
    /\ UNCHANGED notEncoder

EncoderNext ==
    \/ GetFfmpegPath
    \/ ProbeEncoder
    \/ ReturnSoftwareEncoder

(***************************************************************************)
(* Language codes: normalize_language_tag and iso6392_to_iso6391 of        *)
(* language.py, applied one after the other to the language tag of a       *)
(* stream.  babelfish is the generic resolver; it is optional (language.py *)
(* 21-27).  The model gives it the set of ISO 639-3 codes it recognises;   *)
(* Language(code) raises for any other text, and the alpha2 attribute      *)
(* raises for a language that has no two-letter code.                      *)
(***************************************************************************)
\* language.py 48-59
iso6392_map ==
    ( <<"f","r","e">> :> <<"f","r","a">> @@ <<"c","h","i">> :> <<"z","h","o">> @@ <<"c","z","e">> :> <<"c","e","s">>
   @@ <<"d","u","t">> :> <<"n","l","d">> @@ <<"g","e","r">> :> <<"d","e","u">> @@ <<"g","r","e">> :> <<"e","l","l">>
   @@ <<"i","c","e">> :> <<"i","s","l">> @@ <<"m","a","c">> :> <<"m","k","d">> @@ <<"r","u","m">> :> <<"r","o","n">>
   @@ <<"s","l","o">> :> <<"s","l","k">> )

\* language.py 163-191
iso6392_to_iso6391_map ==
    ( <<"e","n","g">> :> <<"e","n">> @@ <<"f","r","a">> :> <<"f","r">> @@ <<"f","r","e">> :> <<"f","r">>
   @@ <<"s","p","a">> :> <<"e","s">> @@ <<"d","e","u">> :> <<"d","e">> @@ <<"g","e","r">> :> <<"d","e">>
   @@ <<"i","t","a">> :> <<"i","t">> @@ <<"j","p","n">> :> <<"j","a">> @@ <<"k","o","r">> :> <<"k","o">>
   @@ <<"p","o","r">> :> <<"p","t">> @@ <<"r","u","s">> :> <<"r","u">> @@ <<"z","h","o">> :> <<"z","h">>
   @@ <<"c","h","i">> :> <<"z","h">> @@ <<"c","e","s">> :> <<"c","s">> @@ <<"c","z","e">> :> <<"c","s">>
   @@ <<"n","l","d">> :> <<"n","l">> @@ <<"d","u","t">> :> <<"n","l">> @@ <<"e","l","l">> :> <<"e","l">>
   @@ <<"g","r","e">> :> <<"e","l">> @@ <<"i","s","l">> :> <<"i","s">> @@ <<"i","c","e">> :> <<"i","s">>
   @@ <<"m","k","d">> :> <<"m","k">> @@ <<"m","a","c">> :> <<"m","k">> @@ <<"r","o","n">> :> <<"r","o">>
   @@ <<"r","u","m">> :> <<"r","o">> @@ <<"s","l","k">> :> <<"s","k">> @@ <<"s","l","o">> :> <<"s","k">> )

\* the registry of the resolver: the two-letter code of an ISO 639-3 code,
\* None for a language that has none
BabelAlpha2 ==
    ( <<"e","n","g">> :> <<"e","n">> @@ <<"f","r","a">> :> <<"f","r">> @@ <<"z","h","o">> :> <<"z","h">>
   @@ <<"c","e","s">> :> <<"c","s">> @@ <<"n","l","d">> :> <<"n","l">> @@ <<"d","e","u">> :> <<"d","e">>
   @@ <<"e","l","l">> :> <<"e","l">> @@ <<"i","s","l">> :> <<"i","s">> @@ <<"m","k","d">> :> <<"m","k">>
   @@ <<"r","o","n">> :> <<"r","o">> @@ <<"s","l","k">> :> <<"s","k">> @@ <<"t","l","h">> :> NoneText )

\* the resolvers of the model: babelfish missing, and babelfish installed
\* with a registry that has no code, English alone, or every code
Resolvers ==
    { [installed |-> FALSE, known |-> {}],
      [installed |-> TRUE, known |-> {}],
      [installed |-> TRUE, known |-> {<<"e","n","g">>}],
      [installed |-> TRUE, known |-> DOMAIN BabelAlpha2] }

NoLanguage == [ok |-> FALSE, alpha3 |-> NoneText, alpha2 |-> NoneText]

\* babelfish Language(code): the language of an ISO 639-3 code
BabelLanguage(babel, code) ==
    IF code \in babel.known
    THEN [ok |-> TRUE, alpha3 |-> code, alpha2 |-> BabelAlpha2[code]]
    ELSE NoLanguage

\* babelfish Language.fromietf(code): the first subtag, in lower case, is a
\* two-letter code or an ISO 639-3 code
BabelFromIetf(babel, code) ==
    LET dash == Find(code, "-", 1)
        subtag == lowerChars(IF dash = 0 THEN code ELSE SubSeq(code, 1, dash - 1))
        hits == { c \in babel.known : BabelAlpha2[c] = subtag }
    IN  IF Len(subtag) = 2
        THEN IF hits = {} THEN NoLanguage
             ELSE LET c == CHOOSE c \in hits : TRUE
                  IN  [ok |-> TRUE, alpha3 |-> c, alpha2 |-> BabelAlpha2[c]]
        ELSE BabelLanguage(babel, subtag)

\* str.isalpha()
isalpha(cs) == cs # <<>> /\ \A i \in 1..Len(cs) : cs[i] \in Letters

\* getattr(lang, 'alpha3', None), then "if iso6392 and len(iso6392) == 3"
HasAlpha3(lang) == lang.ok /\ Len(lang.alpha3) = 3

\* language.py 62: the code is one of the hardcoded variations
IsKnownVariation_never(code_lower) == FALSE

IsKnownVariation(code_lower) == code_lower \in DOMAIN iso6392_map

\* language.py 32-102.  The value returned, and the calls made on the
\* resolver, in order.
normalize_language_tag(code, babel) ==
    LET code_lower == strip(lowerChars(code))
        call(name, arg) == <<[resolver |-> name, arg |-> arg]>>
        direct == BabelLanguage(babel, code_lower)
        ietf_lower == BabelFromIetf(babel, code_lower)
        ietf == BabelFromIetf(babel, code)
        plain == BabelLanguage(babel, code)
        two_letter == Len(code_lower) = 2 /\ isalpha(code_lower) /\ babel.installed
        before == IF two_letter THEN call("fromietf", code_lower) ELSE <<>>
    IN  IF code = NoneText \/ code = <<>>
        THEN [value |-> NoneText, calls |-> <<>>]
        ELSE IF IsKnownVariation(code_lower)
        THEN [value |-> iso6392_map[code_lower], calls |-> <<>>]
        ELSE IF Len(code_lower) = 3 /\ isalpha(code_lower)
        THEN IF babel.installed
             THEN [value |-> IF HasAlpha3(direct) THEN lowerChars(direct.alpha3)
                             ELSE code_lower,
                   calls |-> call("Language", code_lower)]
             ELSE [value |-> code_lower, calls |-> <<>>]
        ELSE IF two_letter /\ HasAlpha3(ietf_lower)
        THEN [value |-> lowerChars(ietf_lower.alpha3), calls |-> before]
        ELSE IF ~babel.installed
        THEN [value |-> NoneText, calls |-> <<>>]
        ELSE IF HasAlpha3(ietf)
        THEN [value |-> lowerChars(ietf.alpha3), calls |-> before \o call("fromietf", code)]
        ELSE IF HasAlpha3(plain)
        THEN [value |-> lowerChars(plain.alpha3),
              calls |-> before \o call("fromietf", code) \o call("Language", code)]
        ELSE [value |-> NoneText,
              calls |-> before \o call("fromietf", code) \o call("Language", code)]

\* language.py 136-193
iso6392_to_iso6391(iso6392_code, babel) ==
    LET iso6392_lower == strip(lowerChars(iso6392_code))
        lang == BabelLanguage(babel, iso6392_lower)
    IN  IF iso6392_code = NoneText \/ iso6392_code = <<>>
        THEN NoneText
        ELSE IF babel.installed /\ lang.ok /\ lang.alpha2 # NoneText
        THEN lowerChars(lang.alpha2)
        ELSE IF iso6392_lower \in DOMAIN iso6392_to_iso6391_map
        THEN iso6392_to_iso6391_map[iso6392_lower]
        ELSE NoneText

\* the ways in which the tag of a stream writes a three-letter code
Spellings(code) ==
    { code,
      [i \in 1..3 |-> UpperChar[code[i]]],
      <<UpperChar[code[1]], code[2], code[3]>>,
      <<" ">> \o code,
      <<"\t", UpperChar[code[1]], code[2], UpperChar[code[3]], " ", "\n">> }

LanguageCodes ==
    UNION { Spellings(code) : code \in DOMAIN iso6392_map }
      \cup { NoneText, <<>>, <<"f","r","a">>, <<"E","N","G">>, <<"t","l","h">>, <<"x","y","z">>, <<"f","r">>, <<"E","N">>,
             <<"q","q">>, <<"e","n","-","U","S">>, <<"e","n","g","l","i","s","h">> }

LanguageInit ==
    /\ lpc = "normalize_language_tag"
    /\ language_tag \in LanguageCodes
    /\ babelfish \in Resolvers
    /\ iso6392 = NoneText
    /\ iso6391 = NoneText
    /\ resolver_calls = <<>>

LanguageIdle ==
    /\ lpc = "idle"
    /\ language_tag = NoneText
    /\ babelfish = [installed |-> FALSE, known |-> {}]
    /\ iso6392 = NoneText
    /\ iso6391 = NoneText
    /\ resolver_calls = <<>>

\* language.py 32-102: the tag of the stream is normalised
NormalizeLanguageTag ==
    /\ lpc = "normalize_language_tag"
    /\ lpc' = "iso6392_to_iso6391"
    /\ LET normalized == normalize_language_tag(language_tag, babelfish)
       IN  /\ iso6392' = normalized.value
           /\ resolver_calls' = normalized.calls
    /\ UNCHANGED <<language_tag, babelfish, iso6391>>
    /\ UNCHANGED notLanguage

\* language.py 136-193: the two-letter code of the normalised tag
Iso6392ToIso6391 ==
    /\ lpc = "iso6392_to_iso6391"
    /\ lpc' = "returned"
    /\ iso6391' = iso6392_to_iso6391(iso6392, babelfish)
    /\ UNCHANGED <<language_tag, babelfish, iso6392, resolver_calls>>
    /\ UNCHANGED notLanguage

LanguageNext ==
    \/ NormalizeLanguageTag
    \/ Iso6392ToIso6391

(***************************************************************************)
(* Output paths: get_output_path (utils.py 442-481), called once for each  *)
(* file of a batch (main.py 510-521, transcode.py 681 and 830-832), and    *)
(* the encoder's write to the path it was given ("-y", ffmpeg.py 326-327). *)
(*   existing  the files on disk, each a directory and a name; the inputs  *)
(*         stand in the directory "src", the target directory is "src" or  *)
(*         "out";                                                          *)
(*   pending   the names of the inputs still to process, in sorted order.  *)
(***************************************************************************)
NoPath == [dir |-> "None", name |-> <<>>]

\* the place of the last dot of the name, 0 if it has none
LastDot(name) ==
    IF \E i \in 1..Len(name) : name[i] = "."
    THEN CHOOSE i \in 1..Len(name) :
            name[i] = "." /\ \A j \in (i + 1)..Len(name) : name[j] # "."
    ELSE 0

\* PurePath.suffix: from the last dot, unless the name starts or ends with it
PathSuffix(name) ==
    IF LastDot(name) > 1 /\ LastDot(name) < Len(name)
    THEN SubSeq(name, LastDot(name), Len(name)) ELSE <<>>

\* PurePath.stem
PathStem(name) == SubSeq(name, 1, Len(name) - Len(PathSuffix(name)))

\* PurePath.with_suffix
with_suffix(name, new_suffix) == PathStem(name) \o new_suffix

\* str(counter), for the f-string of line 476
DigitChars == <<"0", "1", "2", "3", "4", "5", "6", "7", "8", "9">>

RECURSIVE DecimalText(_)
DecimalText(n) ==
    IF n < 10 THEN <<DigitChars[n + 1]>>
    ELSE DecimalText(n \div 10) \o <<DigitChars[(n % 10) + 1]>>

\* utils.py 454-460
BasePath(path, dir) ==
    [dir |-> IF dir # "None" THEN dir ELSE path.dir,
     name |-> with_suffix(path.name, <<".","m","p","4">>)]

\* utils.py 470-477: parent / f"{stem}_{counter}{suffix}"
NumberedPath(base, n) ==
    [dir |-> base.dir,
     name |-> PathStem(base.name) \o <<"_">> \o DecimalText(n) \o PathSuffix(base.name)]

\* a loop that returns its first candidate without looking at the disk
IsFree_unchecked(path, files) == TRUE

\* utils.py 466 and 478: not path.exists()
IsFree(path, files) == path \notin files

\* the batches of the model, each in the order of sorted()
Batches ==
    { <<<<"a",".","a","v","i">>, <<"a",".","m","k","v">>>>,
      <<<<"a",".","m","k","v">>, <<"a","_","1",".","m","k","v">>>>,
      <<<<"a",".","m","k","v">>, <<"a",".","m","p","4">>>>,
      <<<<"a",".","m","p","4">>>> }

\* files that may stand in either directory before the batch starts
OtherFiles ==
    { [dir |-> d, name |-> n] :
        d \in {"src", "out"}, n \in {<<"a",".","m","p","4">>, <<"a","_","1",".","m","p","4">>, <<"a","_","2",".","m","p","4">>} }

OutputInit ==
    /\ opc = "next_file"
    /\ pending \in Batches
    /\ \E others \in SUBSET OtherFiles :
          existing = others \cup { [dir |-> "src", name |-> pending[k]] : k \in 1..Len(pending) }
    /\ target_dir \in {"None", "src", "out"}
    /\ overwrite \in BOOLEAN
    /\ input_path = NoPath
    /\ base_path = NoPath
    /\ counter = 0
    /\ output_path = NoPath

OutputIdle ==
    /\ opc = "idle"
    /\ pending = <<>>
    /\ existing = {}
    /\ target_dir = "None"
    /\ overwrite = FALSE
    /\ input_path = NoPath
    /\ base_path = NoPath
    /\ counter = 0
    /\ output_path = NoPath

\* main.py 510-511, transcode.py 830-831: the next file of the batch
NextFile ==
    /\ opc = "next_file"
    /\ IF pending = <<>>
       THEN opc' = "done" /\ UNCHANGED <<pending, input_path>>
       ELSE /\ opc' = "get_output_path"
            /\ input_path' = [dir |-> "src", name |-> Head(pending)]
            /\ pending' = Tail(pending)
    /\ UNCHANGED <<existing, target_dir, overwrite, base_path, counter, output_path>>
    /\ UNCHANGED notOutput

\* utils.py 454-474: the base path, returned under overwrite or when no
\* file has it; else the loop starts with counter = 1
GetOutputPathBase ==
    /\ opc = "get_output_path"
    /\ base_path' = BasePath(input_path, target_dir)
    /\ IF overwrite \/ IsFree(base_path', existing)
       THEN /\ output_path' = base_path'
            /\ opc' = "write"
            /\ counter' = 0
       ELSE /\ counter' = 1
            /\ opc' = "loop"
            /\ output_path' = NoPath
    /\ UNCHANGED <<pending, existing, target_dir, overwrite, input_path>>
    /\ UNCHANGED notOutput

\* utils.py 475-480: one turn of the loop
NumberedLoop ==
    /\ opc = "loop"
    /\ IF IsFree(NumberedPath(base_path, counter), existing)
       THEN /\ output_path' = NumberedPath(base_path, counter)
            /\ opc' = "write"
            /\ UNCHANGED counter
       ELSE /\ counter' = counter + 1
            /\ UNCHANGED <<opc, output_path>>
    /\ UNCHANGED <<pending, existing, target_dir, overwrite, input_path, base_path>>
    /\ UNCHANGED notOutput

\* ffmpeg.py 326-327 ("-y", str(output_path)): the encoder creates or
\* replaces the file, unless it fails before it opens its output
EncoderWrites ==
    /\ opc = "write"
    /\ opc' = "next_file"
    /\ \E opened \in BOOLEAN :
          existing' = IF opened THEN existing \cup {output_path} ELSE existing
    /\ UNCHANGED <<pending, target_dir, overwrite, input_path, base_path, counter,
                   output_path>>
    /\ UNCHANGED notOutput

OutputNext ==
    \/ NextFile
    \/ GetOutputPathBase
    \/ NumberedLoop
    \/ EncoderWrites

(***************************************************************************)
(* The encoder's command line: build_transcode_command (ffmpeg.py 50-190)  *)
(* and build_rewrap_command (ffmpeg.py 193-330), each a list of texts.     *)
(*   subtitle_streams  the text subtitle streams of the source, each the   *)
(*         index of the stream in the source and its language, None if it  *)
(*         has none;                                                       *)
(*   gen_subs   the subtitle files generated from bitmap subtitles, each a *)
(*         path and a language;                                            *)
(*   cover_path the cover image, None if there is none.                    *)
(* media_metadata is None: the tags of metadata_to_ffmpeg_args are left    *)
(* out of the command.                                                     *)
(***************************************************************************)
MaxTextSubs == 2
MaxGenerated == 2

RECURSIVE Flatten(_)
Flatten(lists) == IF lists = <<>> THEN <<>> ELSE Head(lists) \o Flatten(Tail(lists))

\* "if sub_lang:" is false for None and for the empty text
HasLanguage(language) == language # NoneText /\ language # <<>>

\* ffmpeg.py 79-91 and 228-240: the source, then each generated file, then
\* the cover image
InputArgs(gens, image) ==
    <<<<"f","f","m","p","e","g">>, <<"-","i">>, <<"m","o","v","i","e",".","m","k","v">>>>
      \o Flatten([k \in 1..Len(gens) |-> <<<<"-","i">>, gens[k].path>>])
      \o (IF image # NoneText THEN <<<<"-","i">>, image>> ELSE <<>>)

\* the map of the generated files with f"{idx}:s:0": the input numbers of
\* the generated files taken to start at 0
GeneratedMaps_from_zero(gens) ==
    Flatten([k \in 1..Len(gens) |-> <<<<"-","m","a","p">>, DecimalText(k - 1) \o <<":","s",":","0">>>>])

\* ffmpeg.py 113-116 and 258-261: "-map", f"{idx + 1}:s:0" with idx from 0
GeneratedMaps(gens) ==
    Flatten([k \in 1..Len(gens) |-> <<<<"-","m","a","p">>, DecimalText((k - 1) + 1) \o <<":","s",":","0">>>>])

\* ffmpeg.py 93-116 and 242-261: video and audio, the cover image, the text
\* subtitle streams of the source, the generated files
MapArgs(subs, gens, image) ==
    <<<<"-","m","a","p">>, <<"0",":","v",":","0">>, <<"-","m","a","p">>, <<"0",":","a",":","0">>>>
      \o (IF image # NoneText
          THEN <<<<"-","m","a","p">>, DecimalText(Len(gens) + 1) \o <<":","v",":","0">>>> ELSE <<>>)
      \o Flatten([k \in 1..Len(subs) |-> <<<<"-","m","a","p">>, <<"0",":">> \o DecimalText(subs[k].index)>>])
      \o GeneratedMaps(gens)

\* ffmpeg.py 153-157, 160-164, 283-287 and 290-294: the codec of the output
\* subtitle stream with this index, and its language if it has one
SubtitleArgs(stream_idx, language) ==
    <<<<"-","c",":","s",":">> \o DecimalText(stream_idx), <<"m","o","v","_","t","e","x","t">>>>
      \o (IF HasLanguage(language)
          THEN <<<<"-","m","e","t","a","d","a","t","a",":","s",":","s",":">> \o DecimalText(stream_idx), <<"l","a","n","g","u","a","g","e","=">> \o language>>
          ELSE <<>>)

\* ffmpeg.py 149-164 and 280-294: the text streams from index 0, then the
\* generated files
SubtitleCodecArgs(subs, gens) ==
    Flatten([k \in 1..Len(subs) |-> SubtitleArgs(k - 1, subs[k].language)])
      \o Flatten([k \in 1..Len(gens) |-> SubtitleArgs(Len(subs) + k - 1, gens[k].language)])

\* ffmpeg.py 172-188 and 314-328
OutputArgs ==
    <<<<"-","f">>, <<"m","p","4">>, <<"-","m","o","v","f","l","a","g","s">>, <<"+","f","a","s","t","s","t","a","r","t">>, <<"-","l","o","g","l","e","v","e","l">>, <<"i","n","f","o">>,
      <<"-","n","o","s","t","a","t","s">>, <<"-","p","r","o","g","r","e","s","s">>, <<"p","i","p","e",":","1">>, <<"-","y">>, <<"m","o","v","i","e",".","m","p","4">>>>

\* ffmpeg.py 126-135: the options of each encoder
EncoderOptions(enc) ==
    CASE enc = <<"h","e","v","c","_","n","v","e","n","c">> -> <<<<"-","p","r","e","s","e","t">>, <<"p","4">>, <<"-","r","c">>, <<"v","b","r">>>>
      [] enc = <<"h","e","v","c","_","a","m","f">> -> <<<<"-","q","u","a","l","i","t","y">>, <<"b","a","l","a","n","c","e","d">>, <<"-","r","c">>, <<"v","b","r","_","p","e","a","k">>>>
      [] enc = <<"h","e","v","c","_","q","s","v">> -> <<<<"-","p","r","e","s","e","t">>, <<"m","e","d","i","u","m">>, <<"-","g","l","o","b","a","l","_","q","u","a","l","i","t","y">>, <<"2","3">>>>
      [] enc = <<"h","e","v","c","_","v","i","d","e","o","t","o","o","l","b","o","x">> -> <<<<"-","q","u","a","l","i","t","y">>, <<"1">>>>
      [] OTHER -> <<<<"-","p","r","e","s","e","t">>, <<"m","e","d","i","u","m">>>>

Encoders ==
    { <<"h","e","v","c","_","n","v","e","n","c">>, <<"h","e","v","c","_","a","m","f">>, <<"h","e","v","c","_","q","s","v">>, <<"h","e","v","c","_","v","i","d","e","o","t","o","o","l","b","o","x">>, <<"l","i","b","x","2","6","5">> }

\* ffmpeg.py 76-190, for a video bitrate of 2000 kbit/s
transcode_command(subs, gens, image, enc) ==
    InputArgs(gens, image)
      \o MapArgs(subs, gens, image)
      \o <<<<"-","c",":","v",":","0">>, enc, <<"-","b",":","v",":","0">>, DecimalText(2000) \o <<"k">>>>
      \o EncoderOptions(enc)
      \o (IF enc \in Encoders THEN <<<<"-","t","a","g",":","v",":","0">>, <<"h","v","c","1">>>> ELSE <<>>)
      \o (IF image # NoneText
          THEN <<<<"-","c",":","v",":","1">>, <<"m","j","p","e","g">>, <<"-","d","i","s","p","o","s","i","t","i","o","n",":","v",":","1">>, <<"a","t","t","a","c","h","e","d","_","p","i","c">>>>
          ELSE <<>>)
      \o <<<<"-","c",":","a">>, <<"a","a","c">>, <<"-","b",":","a">>, DecimalText(DEFAULT_AUDIO_BITRATE_KBPS) \o <<"k">>>>
      \o (IF Len(subs) + Len(gens) > 0 THEN SubtitleCodecArgs(subs, gens) ELSE <<<<"-","s","n">>>>)
      \o OutputArgs

\* ffmpeg.py 217-330; hevc: the probe data has a video stream whose codec
\* is hevc or h265
rewrap_command(subs, gens, image, hevc) ==
    InputArgs(gens, image)
      \o MapArgs(subs, gens, image)
      \o (IF image # NoneText
          THEN <<<<"-","c",":","v",":","0">>, <<"c","o","p","y">>, <<"-","c",":","v",":","1">>, <<"m","j","p","e","g">>,
                 <<"-","d","i","s","p","o","s","i","t","i","o","n",":","v",":","1">>, <<"a","t","t","a","c","h","e","d","_","p","i","c">>>>
          ELSE <<<<"-","c",":","v",":","0">>, <<"c","o","p","y">>>>)
      \o <<<<"-","c",":","a">>, <<"c","o","p","y">>>>
      \o SubtitleCodecArgs(subs, gens)
      \o (IF hevc THEN <<<<"-","t","a","g",":","v",":","0">>, <<"h","v","c","1">>>> ELSE <<>>)
      \o (IF Len(subs) + Len(gens) = 0 /\ Len(gens) = 0 THEN <<<<"-","s","n">>>> ELSE <<>>)
      \o OutputArgs

\* the languages of the model
Languages == { NoneText, <<"e","n","g">>, <<"f","r","a">> }

\* the text subtitle streams of a source: up to MaxTextSubs streams, in the
\* order of their indices; streams 0 and 1 are the video and the audio
TextStreamLists ==
    { subs \in UNION { [1..n -> [index : 2..(MaxTextSubs + 1), language : Languages]] :
                         n \in 0..MaxTextSubs } :
        \A k \in 1..(Len(subs) - 1) : subs[k].index < subs[k + 1].index }

\* the generated files: up to MaxGenerated, the k-th with the path t<k>.srt
GeneratedLists ==
    { gens \in UNION { [1..m -> [path : { <<"t">> \o DecimalText(k) \o <<".","s","r","t">> :
                                          k \in 1..MaxGenerated },
                                 language : {NoneText, <<"e","n","g">>}]] :
                         m \in 0..MaxGenerated } :
        \A k \in 1..Len(gens) : gens[k].path = <<"t">> \o DecimalText(k) \o <<".","s","r","t">> }

CommandInit ==
    /\ kpc = "build"
    /\ subtitle_streams \in TextStreamLists
    /\ gen_subs \in GeneratedLists
    /\ cover_path \in {NoneText, <<"c","o","v","e","r",".","j","p","g">>}
    /\ ffmpeg_cmd = <<>>

CommandIdle ==
    /\ kpc = "idle"
    /\ subtitle_streams = <<>>
    /\ gen_subs = <<>>
    /\ cover_path = NoneText
    /\ ffmpeg_cmd = <<>>

\* transcode.py 756-769: the command of transcode mode, for the encoder
\* that detect_gpu_encoder returned
BuildTranscode ==
    /\ kpc = "build"
    /\ kpc' = "transcode"
    /\ \E enc \in Encoders :
          ffmpeg_cmd' = transcode_command(subtitle_streams, gen_subs, cover_path, enc)
    /\ UNCHANGED <<subtitle_streams, gen_subs, cover_path>>
    /\ UNCHANGED notCommand

\* transcode.py 733-745: the command of rewrap mode
BuildRewrap ==
    /\ kpc = "build"
    /\ kpc' = "rewrap"
    /\ \E hevc \in BOOLEAN :
          ffmpeg_cmd' = rewrap_command(subtitle_streams, gen_subs, cover_path, hevc)
    /\ UNCHANGED <<subtitle_streams, gen_subs, cover_path>>
    /\ UNCHANGED notCommand

CommandNext ==
    \/ BuildTranscode
    \/ BuildRewrap

(***************************************************************************)
(* Specifications                                                          *)
(***************************************************************************)
InitCompat == CompatInit /\ BitrateIdle /\ BatchIdle /\ MonitorIdle /\ DetectIdle /\ EncoderIdle /\ LanguageIdle /\ OutputIdle /\ CommandIdle
SpecCompat == InitCompat /\ [][CompatNext]_vars

InitBitrate == BitrateInit /\ CompatIdle /\ BatchIdle /\ MonitorIdle /\ DetectIdle /\ EncoderIdle /\ LanguageIdle /\ OutputIdle /\ CommandIdle
SpecBitrate == InitBitrate /\ [][BitrateNext]_vars

InitBatch == BatchInit /\ CompatIdle /\ BitrateIdle /\ MonitorIdle /\ DetectIdle /\ EncoderIdle /\ LanguageIdle /\ OutputIdle /\ CommandIdle
SpecBatch == InitBatch /\ [][BatchNext]_vars

InitMonitor == MonitorInit /\ CompatIdle /\ BitrateIdle /\ BatchIdle /\ DetectIdle /\ EncoderIdle /\ LanguageIdle /\ OutputIdle /\ CommandIdle
SpecMonitor == InitMonitor /\ [][MonitorNext]_vars

InitDetect == DetectInit /\ CompatIdle /\ BitrateIdle /\ BatchIdle /\ MonitorIdle /\ EncoderIdle /\ LanguageIdle /\ OutputIdle /\ CommandIdle
SpecDetect == InitDetect /\ [][DetectNext]_vars

InitEncoder == EncoderInit /\ CompatIdle /\ BitrateIdle /\ BatchIdle /\ MonitorIdle /\ DetectIdle /\ LanguageIdle /\ OutputIdle /\ CommandIdle
SpecEncoder == InitEncoder /\ [][EncoderNext]_vars

InitLanguage == LanguageInit /\ CompatIdle /\ BitrateIdle /\ BatchIdle /\ MonitorIdle /\ DetectIdle /\ EncoderIdle /\ OutputIdle /\ CommandIdle
SpecLanguage == InitLanguage /\ [][LanguageNext]_vars

InitOutput == OutputInit /\ CompatIdle /\ BitrateIdle /\ BatchIdle /\ MonitorIdle /\ DetectIdle /\ EncoderIdle /\ LanguageIdle /\ CommandIdle
SpecOutput == InitOutput /\ [][OutputNext]_vars

InitCommand == CommandInit /\ CompatIdle /\ BitrateIdle /\ BatchIdle /\ MonitorIdle /\ DetectIdle /\ EncoderIdle /\ LanguageIdle /\ OutputIdle
SpecCommand == InitCommand /\ [][CommandNext]_vars

(***************************************************************************)
(* Claims about the classifier                                             *)
(***************************************************************************)
Rank(status) ==
    CASE status = COMPATIBLE -> 0
      [] status = NEEDS_REMUX -> 1
      [] status = NEEDS_TRANSCODE -> 2

LastCheck == result.checks[Len(result.checks)]

\* C1: during one run of check_apple_tv_compatibility no check lowers
\* overall_status in the order COMPATIBLE < NEEDS_REMUX < NEEDS_TRANSCODE.
C1_StatusMonotonic ==
    [][Rank(result.overall_status) <= Rank(result'.overall_status)]_vars

\* the audio check has just failed on a file that was already NEEDS_TRANSCODE
\* and whose container needs a remux
C1_Witness ==
    /\ cpc = "estimate"
    /\ prev_status = NEEDS_TRANSCODE
    /\ LastCheck.name = "Audio Codec" /\ ~LastCheck.compatible
    /\ result.container_action = "remux"

FirstAudioOnly(pd) ==
    LET a == get_audio_streams(pd)
    IN  SelectStreams(pd, "video") \o (IF a = <<>> THEN <<>> ELSE <<a[1]>>)

\* C5: the audio check reads the first audio stream only; an unsupported codec
\* sets audio_action=transcode and raises COMPATIBLE to NEEDS_REMUX, leaves
\* any other status alone, and the later audio streams change no field of
\* the result; NEEDS_TRANSCODE never comes from audio alone.
C5_AudioFirstStreamOnly ==
    /\ cpc = "estimate" =>
        IF audio_streams # <<>>
           /\ lower(audio_streams[1].codec_name) \notin APPLE_TV_SUPPORTED_AUDIO_CODECS
        THEN /\ result.audio_action = "transcode"
             /\ result.overall_status =
                    (IF prev_status = COMPATIBLE THEN NEEDS_REMUX ELSE prev_status)
        ELSE /\ result.audio_action = "copy"
             /\ result.overall_status = prev_status
    /\ cpc = "done" =>
        /\ result = check_apple_tv_compatibility(FirstAudioOnly(probe_data), input_ext)
        /\ result.overall_status = NEEDS_TRANSCODE => result.video_action = "transcode"

\* a supported first audio stream followed by an unsupported one
C5_Witness ==
    /\ cpc = "done"
    /\ Len(audio_streams) >= 2
    /\ lower(audio_streams[1].codec_name) = "aac"
    /\ lower(audio_streams[2].codec_name) = "dts"
    /\ result.audio_action = "copy"
    /\ result.overall_status = COMPATIBLE

\* the bit depth that a pixel format states: "10" in it is 10-bit, else "12"
\* in it is 12-bit, else 8-bit
C6_Depth(pix_fmt) ==
    IF Contains(<<"1","0">>, pix_fmt) THEN 10
    ELSE IF Contains(<<"1","2">>, pix_fmt) THEN 12 ELSE 8

\* C6: the bit-depth check passes iff the stream is 8-bit, or 10-bit with an
\* HEVC-family codec; 10-bit H.264 and 12-bit under any codec fail, and a
\* failure sets video_action=transcode and overall_status=NEEDS_TRANSCODE.
C6_BitDepth ==
    (cpc = "audio" /\ video_stream # NoStream) =>
        LET d == C6_Depth(video_stream.pix_fmt)
            hevc == lower(video_stream.codec_name) \in {"hevc", "h265", "hvc1", "hev1"}
        IN  /\ LastCheck.name = "Bit Depth"
            /\ LastCheck.compatible <=> (d = 8 \/ (d = 10 /\ hevc))
            /\ (d = 10 /\ lower(video_stream.codec_name) = "h264") => ~LastCheck.compatible
            /\ d = 12 => ~LastCheck.compatible
            /\ ~LastCheck.compatible =>
                /\ result.video_action = "transcode"
                /\ result.overall_status = NEEDS_TRANSCODE

\* a 12-bit HEVC stream that passed every earlier check fails the bit-depth check
C6_Witness ==
    /\ cpc = "audio"
    /\ video_stream # NoStream
    /\ lower(video_stream.codec_name) = "hevc"
    /\ C6_Depth(video_stream.pix_fmt) = 12
    /\ prev_status = COMPATIBLE
    /\ result.overall_status = NEEDS_TRANSCODE

\* the normalised level of a numeric raw level, in hundredths
C7_Normalised(level) == IF level.h > 1000 THEN level.h \div 10 ELSE level.h

\* C7: for H.264 the raw level is divided by 10 when above 10, and the level
\* check passes iff the normalised level is at most 5.2 for width > 1920 and
\* at most 4.2 otherwise (inclusive): 42 at width 1920 passes, 50 and 51 at
\* width 1920 fail and set video_action=transcode.
C7_H264Level ==
    (cpc = "resolution" /\ lower(video_stream.codec_name) \in {"h264", "avc1"}
        /\ video_stream.level.kind \in {"num", "str"}) =>
        LET l == video_stream.level
            w == video_stream.width
        IN  /\ LastCheck.name = "H.264 Level"
            /\ LastCheck.compatible <=>
                    C7_Normalised(l) <= (IF w > 1920 THEN 520 ELSE 420)
            /\ (l.h = 4200 /\ w = 1920) => LastCheck.compatible
            /\ (l.h \in {5000, 5100} /\ w = 1920) =>
                    (~LastCheck.compatible /\ result.video_action = "transcode")

\* raw level 42 at width 1920 has passed the level check
C7_Witness ==
    /\ cpc = "resolution"
    /\ lower(video_stream.codec_name) = "h264"
    /\ video_stream.level = [kind |-> "num", h |-> 4200]
    /\ video_stream.width = 1920
    /\ LastCheck.name = "H.264 Level" /\ LastCheck.compatible

(***************************************************************************)
(* Claims about the bitrate planner                                        *)
(***************************************************************************)
\* C8: for duration_seconds > 0, total_bitrate_kbps is
\* target_size_mb_per_hour * (duration/3600) * 8 * 1024 / duration, which is
\* target_size_mb_per_hour * 8192 / 3600 whatever the duration, and
\* video_bitrate_kbps is max(0, total - audio): never negative, 0 when the
\* audio bitrate exceeds the total; (3600, 900, 192) gives 2048 and 1856.
C8_TargetBitrate ==
    (br_pc = "returned" /\ br_args.duration_seconds.n > 0) =>
        LET total == br_ret.total_bitrate_kbps
            video == br_ret.video_bitrate_kbps
            audio == br_args.audio_bitrate_kbps
        IN  /\ br_ret.raised = ""
            /\ RatMul(total, R(3600)) = RatMul(br_args.target_size_mb_per_hour, R(8192))
            /\ RatLeq(R(0), video)
            /\ IF RatLeq(audio, total) THEN video = RatSub(total, audio) ELSE video = R(0)
            /\ (br_args = [duration_seconds |-> R(3600),
                           target_size_mb_per_hour |-> R(900),
                           audio_bitrate_kbps |-> R(192)])
                    => (total = R(2048) /\ video = R(1856))

\* a call whose audio bitrate exceeds the total bitrate has returned 0
C8_Witness ==
    /\ br_pc = "returned"
    /\ br_args.duration_seconds = R(3600)
    /\ br_args.target_size_mb_per_hour = R(50)
    /\ br_args.audio_bitrate_kbps = R(192)
    /\ br_ret.raised = ""
    /\ ~RatLeq(br_args.audio_bitrate_kbps, br_ret.total_bitrate_kbps)
    /\ br_ret.video_bitrate_kbps = R(0)

(***************************************************************************)
(* Claims about the batch run                                              *)
(***************************************************************************)
BatchEnded == mpc \in {"returned", "exit_1"}

\* C2: a batch run processes every file of the list exactly once, one
\* encode at a time; the failure of one file never keeps the remaining
\* files from being processed, and the count of the "Completed:" line is
\* the number of files whose processing returned success.
C2_BatchContinuesPastFailures ==
    /\ Cardinality(running) <= 1
    /\ \A i \in 1..Len(video_files) : calls[i] <= 1
    /\ (BatchEnded /\ video_files # <<>>) =>
          /\ \A i \in 1..Len(video_files) : calls[i] = 1
          /\ reported = returned_true

\* C3: when a call of transcode_file returns, no temporary directory that
\* the call created (cover, subtitle or frames directory) exists any more,
\* whatever the exit path.
C3_TempDirsRemoved ==
    tpc = "returned" => \A d \in fs_temp : d.owner # file_idx

\* the caller forces a mode with --rewrap, --transcode or a target size
\* other than the default
ModeForced(a) ==
    a.rewrap = "True" \/ a.transcode
        \/ a.targetSizePerHour # R(DEFAULT_TARGET_SIZE_MB_PER_HOUR)

\* the mode of the automatic selection for a file
AutoMode(file) ==
    LET r == check_apple_tv_compatibility(file.probe_data, file.ext)
    IN  IF r.video_action # "transcode" /\ r.audio_action # "transcode"
        THEN "rewrap" ELSE "transcode"

\* C4: when the caller forces no mode, the command of a file is a rewrap
\* command if and only if the classifier reports neither video_action nor
\* audio_action "transcode", and a transcode command otherwise; when the
\* caller forces a mode, the command is of that mode.
C4_ModeSelection ==
    tpc \in {"run", "encoding"} =>
        IF ~ModeForced(args)
        THEN cmd.mode = AutoMode(input_file)
        ELSE /\ (args.rewrap = "True" /\ ~args.transcode) => cmd.mode = "rewrap"
             /\ args.rewrap # "True" => cmd.mode = "transcode"

\* C9: no encoder process is started in transcode mode with a command
\* whose video bitrate is 0 ("-b:v:0 0k").
C9_ZeroBitrateNeverEncoded ==
    ~(tpc = "encoding" /\ cmd.mode = "transcode" /\ cmd.b_v = 0)

(***************************************************************************)
(* Claims about the encoder monitor                                        *)
(***************************************************************************)
\* the encoder wrote a line that ffmpeg logs as an error
WroteDiagnostic == \E k \in 1..Len(written) : StderrLines[written[k]].level = "error"

\* C10: run_ffmpeg_with_progress never returns a non-zero return code with
\* an empty error_output when the encoder wrote at least one diagnostic
\* line to standard error (stated for the returns at which the main thread
\* has taken every line the encoder wrote).
C10_DiagnosticsSurfaced ==
    (/\ mon_pc = "returned"
     /\ process.returncode # 0
     /\ WroteDiagnostic
     /\ stderr_pipe = <<>> /\ stderr_queue = <<>>)
        => error_output # <<>>


(***************************************************************************)
(* Claims about the filename pattern matcher and the metadata detector     *)
(***************************************************************************)
\* the tokens of a template: each text from a "<" to the next ">"
TemplateTokens(template) ==
    { SubSeq(template, i, Find(template, ">", i)) :
        i \in { k \in 1..Len(template) : template[k] = "<" /\ Find(template, ">", k) # 0 } }

HasPattern == manual_pattern # NoneText /\ manual_pattern # <<>>

HasUnsupportedToken ==
    HasPattern /\ \E token \in TemplateTokens(manual_pattern) :
                      token \notin DOMAIN PATTERN_TOKEN_MAP

\* the template was compiled and the call went on to match the file name
PatternCompiled == HasPattern /\ dpc \in {"match", "override", "strategies", "returned"}

PatternMatched == dpc \in {"override", "strategies", "returned"}

C12_MalformedTemplateFatal ==
    args.fileNamePattern = "malformed" =>
        /\ file_idx = 0
        /\ \A i \in 1..Len(video_files) : calls[i] = 0
        /\ reported = -1

\* s is an initial part of t
IsPrefix(s, t) == Len(s) <= Len(t) /\ SubSeq(t, 1, Len(s)) = s

\* the call of detect_metadata is past its manual pattern step
PastManualStep ==
    pattern_module = "media_patterns" /\ dpc \in {"override", "strategies", "returned"}

\* the manual pattern was given and matches the whole file name
ManualPatternMatches == HasPattern /\ FullMatch(buffer, source).ok

\* (1) a manual pattern that matches the file name gives the detection that
\* is returned, and no auto-detection strategy is consulted
C13_ManualFirst ==
    (PastManualStep /\ ManualPatternMatches) =>
        /\ dpc = "returned"
        /\ consulted = <<>>
        /\ detection # NoDetection /\ detection.pattern_name = "manual-pattern"

\* (2) otherwise, with an override, only the strategies of the forced type
\* are consulted
C13_OverrideSecond ==
    (PastManualStep /\ ~ManualPatternMatches /\ media_type_override # "None") =>
        IsPrefix(consulted,
                 IF media_type_override = "show"
                 THEN <<"tv_dash_title", "tv_standard", "tv_alt_1x", "tv_three_digit",
                        "tv_airdate">>
                 ELSE <<"movie_paren_year", "movie_dotted_year">>)

\* (3) otherwise the TV strategies, then the movie strategies
C13_AutoLast ==
    (PastManualStep /\ ~ManualPatternMatches /\ media_type_override = "None") =>
        IsPrefix(consulted,
                 <<"tv_dash_title", "tv_standard", "tv_alt_1x", "tv_three_digit",
                   "tv_airdate", "movie_paren_year", "movie_dotted_year">>)

\* a detection, once obtained, is what the call returns: no later step runs
C13_NeverReplaced ==
    (pattern_module = "media_patterns" /\ detection # NoDetection) =>
        /\ dpc = "returned"
        /\ manual_detection # NoDetection =>
              consulted = <<>> /\ detection = EnforceOverride(manual_detection, media_type_override)
        /\ manual_detection = NoDetection /\ detection.matched =>
              detection.metadata = Strategy(consulted[Len(consulted)], Stem(source))

(***************************************************************************)
(* C13.  detect_metadata tries its sources in strict order and returns at  *)
(* most one detection: a manual pattern that matches the file name gives   *)
(* the result and no auto-detection strategy is consulted; otherwise an    *)
(* override runs the auto-detection of the forced type alone; otherwise    *)
(* the TV strategies and then the movie strategies run; the result of an   *)
(* earlier step is never replaced by a later one.                          *)
(***************************************************************************)
C13_StrictOrder ==
    C13_ManualFirst /\ C13_OverrideSecond /\ C13_AutoLast /\ C13_NeverReplaced

\* the media type that an override forces
OverrideType == IF media_type_override = "show" THEN TV_SHOW ELSE MOVIE

\* the strategies of the forced type, none of which finds anything in the name
ForcedDetectionFailed ==
    \A strategy \in (IF media_type_override = "show"
                     THEN {"tv_dash_title", "tv_standard", "tv_alt_1x", "tv_three_digit",
                           "tv_airdate"}
                     ELSE {"movie_paren_year", "movie_dotted_year"}) :
        Strategy(strategy, Stem(source)) = NoMetadata

\* the call of detect_metadata has returned
DetectReturned == pattern_module = "media_patterns" /\ dpc = "returned"

\* the detection is the synthesized fallback of the forced type for the name
IsSynthesizedFallback(d) ==
    LET title == _clean_component(Stem(source))
    IN  /\ ~d.matched
        /\ d.media_type = OverrideType
        /\ d.metadata.year = NoneInt
        /\ IF media_type_override = "show"
           THEN /\ d.metadata.type = "EpisodeMetadata"
                /\ d.metadata.series_name = title /\ d.metadata.episode_title = title
                /\ d.metadata.season_number = NoneInt
                /\ d.metadata.episode_number = NoneInt
           ELSE /\ d.metadata.type = "MovieMetadata"
                /\ d.metadata.movie_title = title

(***************************************************************************)
(* C14.  With a media type override detect_metadata never returns None and *)
(* the media type returned is the override.  When no manual pattern        *)
(* matched and the auto-detection of the forced type found nothing, the    *)
(* result is a synthesized detection with matched = False, whose title is  *)
(* the cleaned stem of the file name and whose year, season and episode    *)
(* are None; no other detection has matched = False.                       *)
(***************************************************************************)
C14_OverrideFallback ==
    DetectReturned =>
        /\ media_type_override # "None" =>
              /\ detection # NoDetection
              /\ detection.media_type = OverrideType
              /\ (manual_detection = NoDetection /\ ForcedDetectionFailed) =>
                    IsSynthesizedFallback(detection)
        /\ (detection # NoDetection /\ ~detection.matched) =>
              /\ media_type_override # "None"
              /\ manual_detection = NoDetection
              /\ ForcedDetectionFailed
              /\ IsSynthesizedFallback(detection)

\* a forced show for which neither the pattern nor a TV strategy found
\* anything, and a manual movie detection turned into a show
C14_Witness ==
    /\ DetectReturned
    /\ media_type_override = "show"
    /\ \/ ~detection.matched /\ HasPattern
       \/ manual_detection # NoDetection /\ manual_detection.media_type = MOVIE

\* the documented priority of the TV strategies
TvPriority == <<"tv_dash_title", "tv_standard", "tv_alt_1x", "tv_three_digit", "tv_airdate">>

\* the places in the priority of the strategies that find something in the name
TvMatching == { i \in 1..Len(TvPriority) : Strategy(TvPriority[i], Stem(source)) # NoMetadata }

\* the first of them
TvFirst == CHOOSE i \in TvMatching : \A j \in TvMatching : i <= j

\* TV auto-detection ran: no manual detection, and no movie override
TvDetectionRan ==
    /\ pattern_module = "media_patterns"
    /\ manual_detection = NoDetection
    /\ media_type_override # "movie"
    /\ consulted # <<>>

(***************************************************************************)
(* C15.  TV auto-detection tries dash-separated title, standard S##E##,    *)
(* alternate #x##, bare 3-digit marker and air date in this order, and the *)
(* first strategy that matches alone gives the result (pattern name,       *)
(* season, episode, series and title), wherever the markers stand in the   *)
(* name and whatever the later strategies would find; a movie strategy is  *)
(* tried only when none of the five matches.                               *)
(***************************************************************************)
C15_TvPriority ==
    TvDetectionRan =>
        /\ IsPrefix(SubSeq(consulted, 1, IF Len(consulted) < 5 THEN Len(consulted) ELSE 5),
                    TvPriority)
        /\ (\E i \in 1..Len(consulted) :
               consulted[i] \in {"movie_paren_year", "movie_dotted_year"}) => TvMatching = {}
        /\ (dpc = "returned" /\ TvMatching # {}) =>
              /\ detection.media_type = TV_SHOW
              /\ detection.pattern_name = TvPriority[TvFirst]
              /\ detection.metadata = Strategy(TvPriority[TvFirst], Stem(source))
              /\ consulted = SubSeq(TvPriority, 1, TvFirst)
        /\ (dpc = "returned" /\ TvMatching = {} /\ detection # NoDetection) =>
              \/ detection.media_type = MOVIE
              \/ ~detection.matched

\* the #x## marker stands before the S##E## marker and both strategies would
\* match: the standard strategy gives the result
C15_Witness ==
    /\ TvDetectionRan /\ dpc = "returned"
    /\ {2, 3} \subseteq TvMatching
    /\ detection.pattern_name = "tv_standard"
    /\ detection.metadata.season_number = 3
    /\ Strategy("tv_alt_1x", Stem(source)).season_number = 1

\* the places of the stem where an isolated run of three digits starts
IsolatedRuns(stem) ==
    { i \in 1..(Len(stem) - 2) :
        /\ \A k \in i..(i + 2) : stem[k] \in Digits
        /\ i > 1 => stem[i - 1] \notin Digits
        /\ i + 3 <= Len(stem) => stem[i + 3] \notin Digits }

\* the run at i stands immediately after an X or an H, in either case
IsCodecRun(stem, i) == i > 1 /\ stem[i - 1] \in {"X", "x", "H", "h"}

\* the stem has no S##E##, #x## or date marker
NoOtherMarker(stem) ==
    \A strategy \in {"tv_dash_title", "tv_standard", "tv_alt_1x", "tv_airdate"} :
        Strategy(strategy, stem) = NoMetadata

\* detect_metadata was called with the path alone, and has returned
PlainCallReturned ==
    DetectReturned /\ manual_pattern = NoneText /\ media_type_override = "None"

(***************************************************************************)
(* C16.  A run of three digits that stands immediately after X or H, in    *)
(* either case, is never taken for season and episode: the run that the    *)
(* three-digit strategy uses is not such a run, and a name without any     *)
(* other marker whose isolated three-digit runs are all of that form is    *)
(* detected as a movie or not at all, never as a TV show.                  *)
(***************************************************************************)
C16_CodecIndicatorExcluded ==
    PlainCallReturned =>
        LET stem == Stem(source)
        IN  /\ (detection # NoDetection /\ detection.pattern_name = "tv_three_digit") =>
                  \E i \in IsolatedRuns(stem) :
                      /\ ~IsCodecRun(stem, i)
                      /\ detection.metadata.season_number = DigitValue[stem[i]]
                      /\ detection.metadata.episode_number =
                            10 * DigitValue[stem[i + 1]] + DigitValue[stem[i + 2]]
            /\ (/\ NoOtherMarker(stem)
                /\ IsolatedRuns(stem) # {}
                /\ \A i \in IsolatedRuns(stem) : IsCodecRun(stem, i)) =>
                  detection = NoDetection \/ detection.media_type = MOVIE

\* "Film 2024 X265 HEVC.mkv": the only isolated run is the 265 of X265, and
\* the name is detected as a movie
C16_Witness ==
    /\ PlainCallReturned
    /\ NoOtherMarker(Stem(source))
    /\ IsolatedRuns(Stem(source)) # {}
    /\ \A i \in IsolatedRuns(Stem(source)) : Stem(source)[i - 1] = "X"
    /\ detection # NoDetection /\ detection.media_type = MOVIE

\* the tokens of the manual pattern
PatternHas(tokens) == \E token \in tokens : token \in TemplateTokens(manual_pattern)

HasSeasonEpisodePair ==
    /\ PatternHas({TOKEN_SEASON_2, TOKEN_SEASON_1_2})
    /\ PatternHas({TOKEN_EPISODE_2, TOKEN_EPISODE_1_2})

\* the text that the field has in the match of the pattern on the file name
ManualField(field) == GroupText(FullMatch(buffer, source), source, field)

\* match_manual_pattern ran on a file name that the pattern matches
ManualMatchDone ==
    /\ pattern_module = "media_patterns"
    /\ HasPattern
    /\ dpc \in {"override", "strategies", "returned"}
    /\ FullMatch(buffer, source).ok

(***************************************************************************)
(* C17.  For a file name that the manual pattern matches, a pattern with a *)
(* season and an episode token gives an episode (TV_SHOW, EpisodeMetadata  *)
(* with the season and episode parsed), and a pattern with a Movie Name    *)
(* token and no such pair gives a movie (MOVIE, MovieMetadata with the     *)
(* cleaned movie field as title and the year parsed), also when it has an  *)
(* Episode Name token; the detection has pattern_name "manual-pattern",    *)
(* matched = True and is_manual = True.                                    *)
(***************************************************************************)
C17_ManualPatternKinds ==
    ManualMatchDone =>
        /\ HasSeasonEpisodePair =>
              /\ manual_detection # NoDetection
              /\ manual_detection.media_type = TV_SHOW
              /\ manual_detection.metadata.type = "EpisodeMetadata"
              /\ manual_detection.metadata.season_number = IntOf(ManualField("season"))
              /\ manual_detection.metadata.episode_number = IntOf(ManualField("episode"))
        /\ (PatternHas({TOKEN_MOVIE}) /\ ~HasSeasonEpisodePair) =>
              /\ manual_detection # NoDetection
              /\ manual_detection.media_type = MOVIE
              /\ manual_detection.metadata.type = "MovieMetadata"
              /\ manual_detection.metadata.movie_title = _clean_component(ManualField("movie"))
              /\ manual_detection.metadata.year =
                    IF PatternHas({TOKEN_YEAR}) THEN IntOf(ManualField("year")) ELSE NoneInt
        /\ manual_detection # NoDetection =>
              /\ manual_detection.pattern_name = "manual-pattern"
              /\ manual_detection.matched
              /\ manual_detection.is_manual

\* "<Movie Name> (<Year>) - <Episode Name>.mkv" on "Film (2020) - Extra.mkv"
C17_Witness ==
    /\ ManualMatchDone
    /\ PatternHas({TOKEN_MOVIE}) /\ PatternHas({TOKEN_TITLE}) /\ ~HasSeasonEpisodePair
    /\ manual_detection # NoDetection
    /\ manual_detection.media_type = MOVIE
    /\ manual_detection.metadata.year = 2020


(***************************************************************************)
(* Claims about encoder selection                                          *)
(***************************************************************************)
\* the encoders that the runs so far have shown to be available, each
\* looked up in the run made for it
AvailableAt == { i \in 1..Len(probes) : GpuEncoderPriority[i] \in probes[i].stdout }

(***************************************************************************)
(* C18.  Encoder selection probes hevc_nvenc, hevc_amf, hevc_qsv and       *)
(* hevc_videotoolbox in this order and returns the first that is           *)
(* available; when none is, or when probing fails, it returns libx265.     *)
(* The call always returns one of the five names: it has no failure path.  *)
(***************************************************************************)
C18_AlwaysReturnsEncoder ==
    /\ encoder_raised = "" /\ epc # "raised"
    /\ epc = "returned" =>
          /\ encoder_ret \in HardwareEncoders \cup {"libx265"}
          /\ IF AvailableAt = {}
             THEN encoder_ret = "libx265" /\ Len(probes) = 4
             ELSE /\ AvailableAt = {Len(probes)}
                  /\ encoder_ret =
                       <<"hevc_nvenc", "hevc_amf", "hevc_qsv", "hevc_videotoolbox">>[Len(probes)]

(***************************************************************************)
(* Claims about the conversion of bitmap subtitles                         *)
(***************************************************************************)
\* the list is in stream order: its stream numbers increase
InStreamOrder(list) == \A i, j \in 1..Len(list) : i < j => list[i] < list[j]

\* a step of the conversion loop that ends the work on a stream
TrackEnds == tpc \in {"subs_track", "ocr"} /\ track' = track + 1

\* the stream failed: it was skipped for its language, its extraction
\* failed, or OCR gave no subtitle file
TrackFails == TrackEnds /\ (Len(generated') = 0 \/ generated'[Len(generated')] # track)

\* the streams of the file are under conversion
Converting == tpc \in {"subs_track", "ocr"}

C19_Kept ==
    /\ Converting =>
          /\ exc = ""
          /\ track \in 1..(Len(bitmap_streams) + 1)
          /\ InStreamOrder(generated)
          /\ \A i \in 1..Len(generated) : generated[i] \in 1..Len(bitmap_streams)
          /\ tpc = "subs_track" => \A i \in 1..Len(generated) : generated[i] < track
    /\ InStreamOrder(generated_subtitles)
    /\ tpc \in {"run", "encoding"} => cmd.subtitles = generated_subtitles

C19_Step ==
    Converting =>
        \* the stream that fails is dropped alone, and the loop goes on
        /\ TrackFails => generated' = generated /\ tpc' = "subs_track" /\ exc' = ""
        \* the stream that succeeds is added after the earlier ones
        /\ (TrackEnds /\ ~TrackFails) => generated' = Append(generated, track)
        \* the loop is left after the last stream only, for the mode decision
        \* and the encode, with the streams converted
        /\ tpc' \in {"subs_track", "ocr", "mode"}
        /\ tpc' = "ocr" => tpc = "subs_track" /\ track' = track /\ generated' = generated
        /\ tpc' = "mode" =>
              /\ track = Len(bitmap_streams) + 1
              /\ generated_subtitles' = generated
              /\ exc' = ""

BibliographicCodes ==
    { <<<<"f","r","e">>, <<"f","r","a">>, <<"f","r">>>>, <<<<"c","h","i">>, <<"z","h","o">>, <<"z","h">>>>,
      <<<<"c","z","e">>, <<"c","e","s">>, <<"c","s">>>>, <<<<"d","u","t">>, <<"n","l","d">>, <<"n","l">>>>,
      <<<<"g","e","r">>, <<"d","e","u">>, <<"d","e">>>>, <<<<"g","r","e">>, <<"e","l","l">>, <<"e","l">>>>,
      <<<<"i","c","e">>, <<"i","s","l">>, <<"i","s">>>>, <<<<"m","a","c">>, <<"m","k","d">>, <<"m","k">>>>,
      <<<<"r","u","m">>, <<"r","o","n">>, <<"r","o">>>>, <<<<"s","l","o">>, <<"s","l","k">>, <<"s","k">>>> }

\* the tag is the bibliographic code in some letter case, with white space
\* around it
Writes(tag, code) ==
    \E i \in 1..(Len(tag) - 2) :
        /\ \A k \in 1..Len(tag) : (k < i \/ k > i + 2) => tag[k] \in {" ", "\t", "\n", "\r"}
        /\ \A k \in 0..2 : tag[i + k] \in {code[k + 1], UpperChar[code[k + 1]]}

(***************************************************************************)
(* C20.  For each of the ten bibliographic codes, in any letter case and   *)
(* with white space around it, normalize_language_tag returns the          *)
(* hardcoded terminological code without a call on the resolver, and       *)
(* iso6392_to_iso6391 of that result is the two-letter code of the         *)
(* language, whether the resolver is installed or not and whatever codes   *)
(* it recognises.                                                          *)
(***************************************************************************)
C20_BibliographicPrecedence ==
    \A entry \in BibliographicCodes :
        Writes(language_tag, entry[1]) =>
            /\ lpc \in {"iso6392_to_iso6391", "returned"} =>
                  iso6392 = entry[2] /\ resolver_calls = <<>>
            /\ lpc = "returned" => iso6391 = entry[3]

\* " Ger \n"-like spelling with a resolver that is installed and knows no
\* code gives deu and de
C20_Witness ==
    /\ lpc = "returned"
    /\ Writes(language_tag, <<"g","e","r">>) /\ language_tag # <<"g","e","r">>
    /\ babelfish.installed /\ babelfish.known = {}
    /\ iso6392 = <<"d","e","u">>
    /\ iso6391 = <<"d","e">>

(***************************************************************************)
(* Claims about the output paths                                           *)
(***************************************************************************)
\* get_output_path has returned, and the encoder has not yet written
PathReturned == opc = "write"

\* what get_output_path returns without overwrite: a path that no file has,
\* the base path if it is free, else the numbered path with the smallest
\* number from 1 that is free; with overwrite: the base path
C21_Returned ==
    PathReturned =>
        LET base == BasePath(input_path, target_dir)
        IN  IF overwrite THEN output_path = base
            ELSE /\ output_path \notin existing
                 /\ base \notin existing => output_path = base
                 /\ base \in existing =>
                       \E n \in 1..(Cardinality(existing) + 1) :
                          /\ output_path = NumberedPath(base, n)
                          /\ \A m \in 1..(n - 1) : NumberedPath(base, m) \in existing

\* the encoder's write, without overwrite, replaces no file: every file
\* that was there stays, and the path written was free
C21_Step ==
    (PathReturned /\ opc' = "next_file" /\ ~overwrite) =>
        /\ output_path \notin existing
        /\ existing \subseteq existing'

(***************************************************************************)
(* C21.  Without overwrite get_output_path never returns a path that       *)
(* exists: it returns <stem>.mp4 when free, else <stem>_N.mp4 for the      *)
(* smallest N >= 1 that is free, so that no write of a sequential batch    *)
(* replaces a file that was there before, the output of an earlier file of *)
(* the batch included; with overwrite it returns the base path.            *)
(***************************************************************************)
C21_NeverReturnsExisting == []C21_Returned /\ [][C21_Step]_vars

\* the second file of the batch a.avi, a.mkv, in a directory that held
\* a_1.mp4 before: a.mp4 is the output of the first file, and the second
\* gets a_2.mp4
C21_Witness ==
    /\ PathReturned
    /\ ~overwrite
    /\ pending = <<>>
    /\ input_path.name = <<"a", ".", "m", "k", "v">>
    /\ base_path \in existing
    /\ counter = 2
    /\ output_path = NumberedPath(base_path, 2)
    /\ output_path.name = <<"a", "_", "2", ".", "m", "p", "4">>

\* the strategies that cut the name at a marker and hand the text before it
\* to _build_episode_from_parts
MarkerPattern(pattern_name) ==
    CASE pattern_name = "tv_standard" -> SEASON_EPISODE_PATTERN
      [] pattern_name = "tv_alt_1x" -> ALT_SEASON_EPISODE_PATTERN
      [] pattern_name = "tv_three_digit" -> COMBINED_EPISODE_PATTERN
      [] pattern_name = "tv_airdate" -> DATE_EPISODE_PATTERN

\* the series-name portion: the text before the marker, without the
\* separators that stand between it and the marker
SeriesPortion(stem, pattern_name) ==
    StripRight(Before(Search(MarkerPattern(pattern_name), stem), stem), Separators)

\* the portion ends with four digits, bare or in parentheses
EndsWithBareYear(portion) ==
    Len(portion) >= 4 /\ \A k \in (Len(portion) - 3)..Len(portion) : portion[k] \in Digits

EndsWithParenYear(portion) ==
    /\ Len(portion) >= 6
    /\ portion[Len(portion)] = ")" /\ portion[Len(portion) - 5] = "("
    /\ \A k \in (Len(portion) - 4)..(Len(portion) - 1) : portion[k] \in Digits

TrailingYear(portion) ==
    IF EndsWithParenYear(portion)
    THEN IntOf(SubSeq(portion, Len(portion) - 4, Len(portion) - 1))
    ELSE IntOf(SubSeq(portion, Len(portion) - 3, Len(portion)))

WithoutTrailingYear(portion) ==
    IF EndsWithParenYear(portion) THEN SubSeq(portion, 1, Len(portion) - 6)
    ELSE SubSeq(portion, 1, Len(portion) - 4)

\* auto-detection alone returned an episode found by one of these strategies
EpisodeFromParts ==
    /\ PlainCallReturned
    /\ detection # NoDetection
    /\ detection.pattern_name \in {"tv_standard", "tv_alt_1x", "tv_three_digit", "tv_airdate"}

(***************************************************************************)
(* C22.  In TV auto-detection a trailing (YYYY) or bare trailing YYYY on   *)
(* the series-name portion, whichever separator (space, dot, underscore,   *)
(* dash) stands between it and the marker, is the episode's year and is    *)
(* removed from series_name; a portion that does not end with four digits  *)
(* gives no year.  (For the air-date strategy the year of the date         *)
(* replaces the year of the portion, so only the name is compared.)        *)
(***************************************************************************)
C22_TrailingYearExtracted ==
    EpisodeFromParts =>
        LET portion == SeriesPortion(Stem(source), detection.pattern_name)
            dated == detection.pattern_name = "tv_airdate"
        IN  IF EndsWithParenYear(portion) \/ EndsWithBareYear(portion)
            THEN /\ dated \/ detection.metadata.year = TrailingYear(portion)
                 /\ _clean_component(WithoutTrailingYear(portion)) # <<>> =>
                       detection.metadata.series_name =
                           _clean_component(WithoutTrailingYear(portion))
            ELSE dated \/ detection.metadata.year = NoneInt

\* the title material: the text after the marker, its parentheses turned
\* into spaces and its bracketed notes removed
TitleMaterial(stem, pattern_name) ==
    LET suffix == After(Search(MarkerPattern(pattern_name), stem), stem)
    IN  RemoveBrackets([i \in 1..Len(suffix) |->
                           IF suffix[i] \in {"(", ")"} THEN " " ELSE suffix[i]])

\* a quality, source or codec marker, or a resolution number
IsQualityMarker(token) ==
    upperChars(token) \in QUALITY_BREAK_WORDS \/ IsQualityNumber(token)

\* the tokens before the first marker
BeforeFirstMarker(tokens) ==
    LET markers == { i \in 1..Len(tokens) : IsQualityMarker(tokens[i]) }
    IN  IF markers = {} THEN tokens
        ELSE SubSeq(tokens, 1, (CHOOSE i \in markers : \A j \in markers : i <= j) - 1)

C24_EveryLineHandled ==
    mon_pc = "returned" =>
        /\ process.state = "exited"
        /\ stdout_pipe = <<>> /\ stderr_pipe = <<>>
        /\ stdout_queue = <<>> /\ stderr_queue = <<>>

(***************************************************************************)
(* C25.  In every result that check_apple_tv_compatibility returns the     *)
(* status follows from the three actions: NEEDS_TRANSCODE exactly when     *)
(* video_action is transcode; COMPATIBLE exactly when container_action is  *)
(* none and both video_action and audio_action are copy, which is exactly  *)
(* when every check is compatible; NEEDS_REMUX in every other case, among  *)
(* them an audio transcode in a compatible container.                      *)
(***************************************************************************)
C25_StatusFromActions ==
    cpc = "done" =>
        LET all_copy == /\ result.container_action = "none"
                        /\ result.video_action = "copy"
                        /\ result.audio_action = "copy"
        IN  /\ result.overall_status \in {COMPATIBLE, NEEDS_REMUX, NEEDS_TRANSCODE}
            /\ result.overall_status = NEEDS_TRANSCODE <=> result.video_action = "transcode"
            /\ result.overall_status = COMPATIBLE <=> all_copy
            /\ all_copy <=> \A i \in 1..Len(result.checks) : result.checks[i].compatible
            /\ result.overall_status = NEEDS_REMUX <=>
                  (result.video_action # "transcode" /\ ~all_copy)

\* an audio transcode alone, in a compatible container, is NEEDS_REMUX
C25_Witness ==
    /\ cpc = "done"
    /\ result.overall_status = NEEDS_REMUX
    /\ result.container_action = "none"
    /\ result.video_action = "copy"
    /\ result.audio_action = "transcode"

(***************************************************************************)
(* C26.  Every detection that detect_metadata returns carries the payload  *)
(* of its tag: an EpisodeMetadata exactly when media_type is TV_SHOW and a *)
(* MovieMetadata exactly when it is MOVIE, for every manual pattern, match *)
(* outcome and override, also when the override turned a manual match into *)
(* the other type.                                                         *)
(***************************************************************************)
C26_PayloadMatchesTag ==
    (DetectReturned /\ detection # NoDetection) =>
        /\ detection.media_type \in {TV_SHOW, MOVIE}
        /\ detection.metadata.type \in {"EpisodeMetadata", "MovieMetadata"}
        /\ detection.metadata.type = "EpisodeMetadata" <=> detection.media_type = TV_SHOW
        /\ detection.metadata.type = "MovieMetadata" <=> detection.media_type = MOVIE

\* a manual match that gave an episode, returned as a movie under the
\* override
C26_Witness ==
    /\ DetectReturned
    /\ media_type_override = "movie"
    /\ manual_detection # NoDetection
    /\ manual_detection.media_type = TV_SHOW
    /\ detection.media_type = MOVIE
    /\ detection.metadata.movie_title = manual_detection.metadata.series_name

(***************************************************************************)
(* C27.  get_output_path never returns the input path itself, whatever the *)
(* suffix of the input (.mp4 included), with or without a target directory *)
(* and with or without overwrite.                                          *)
(***************************************************************************)
C27_NeverTheInput == PathReturned => output_path # input_path

\* the number of places of the sequence that hold the line
Occurrences(lines, i) == Cardinality({ k \in 1..Len(lines) : lines[k] = i })

\* the call has returned and the main thread has taken every line written
ReturnedAllTaken ==
    /\ mon_pc = "returned"
    /\ stderr_pipe = <<>> /\ stderr_queue = <<>>

(***************************************************************************)
(* C28.  Whether a line of standard error is recorded as an error does not *)
(* depend on the loop that takes it from the queue: when the call has      *)
(* returned and every line written has been taken, each line is recorded   *)
(* either every time it was written or never.                              *)
(***************************************************************************)
C28_SchedulingIndependent ==
    ReturnedAllTaken =>
        \A i \in DOMAIN StderrLines :
            Occurrences(error_lines, i) \in {0, Occurrences(written, i)}

(***************************************************************************)
(* Claims about the encoder's command line                                 *)
(***************************************************************************)
\* the values that follow the option, in the order of the command
RECURSIVE OptionValues(_, _)
OptionValues(argv, option) ==
    IF Len(argv) < 2 THEN <<>>
    ELSE IF Head(argv) = option
         THEN <<argv[2]>> \o OptionValues(Tail(Tail(argv)), option)
         ELSE OptionValues(Tail(argv), option)

\* the number of the input that a map value names: the digits before its
\* first colon
MapInput(value) ==
    IntOf(SubSeq(value, 1, (CHOOSE i \in 1..Len(value) :
                               value[i] = ":" /\ \A j \in 1..(i - 1) : value[j] # ":") - 1))

\* the text after the first colon of a map value
MapStream(value) ==
    SubSeq(value, (CHOOSE i \in 1..Len(value) :
                      value[i] = ":" /\ \A j \in 1..(i - 1) : value[j] # ":") + 1, Len(value))

\* the map values that select neither the video nor the audio nor the image
SubtitleMaps(argv) ==
    SelectSeq(OptionValues(argv, <<"-", "m", "a", "p">>),
              LAMBDA v : MapStream(v) \notin {<<"v", ":", "0">>, <<"a", ":", "0">>})

\* the places of the command that hold the text
Places(argv, text) == { k \in 1..Len(argv) : argv[k] = text }

\* a command has been built
CommandBuilt == kpc \in {"transcode", "rewrap"}

\* the language of the subtitle stream that stands at this place of the
\* output, counted from 0: the text streams first, then the generated files
LanguageAt(j) ==
    IF j < Len(subtitle_streams) THEN subtitle_streams[j + 1].language
    ELSE gen_subs[j - Len(subtitle_streams) + 1].language

IsResolutionRun(stem, i) == i + 3 <= Len(stem) /\ stem[i + 3] \in {"P", "p"}

\* the three-digit strategy has been tried in this call
ThreeDigitTried == \E k \in 1..Len(consulted) : consulted[k] = "tv_three_digit"

\* the call returned what the three-digit strategy found
ThreeDigitMatched ==
    /\ dpc = "returned"
    /\ detection # NoDetection
    /\ detection.pattern_name = "tv_three_digit"

(***************************************************************************)
(* C30.  Once the three-digit strategy has been tried, it has matched if   *)
(* and only if the name has an isolated run of three digits and the FIRST  *)
(* such run neither follows an X or H nor precedes a P; a later run is     *)
(* never used.  When it matched, the first digit of that run is the season *)
(* and its last two digits are the episode.  No isolated run of three      *)
(* digits has a value in 1900..2099, so the year guard rejects nothing.    *)
(***************************************************************************)
C30_FirstRunOnly ==
    LET stem == Stem(source)
        runs == IsolatedRuns(stem)
        first == CHOOSE i \in runs : \A j \in runs : i <= j
        accepted == runs # {} /\ ~IsCodecRun(stem, first) /\ ~IsResolutionRun(stem, first)
    IN  /\ \A i \in runs : ~IsYear(IntOf(SubSeq(stem, i, i + 2)))
        /\ (ThreeDigitTried /\ dpc \in {"strategies", "returned"}) =>
              /\ ThreeDigitMatched <=> (accepted /\ consulted[Len(consulted)] = "tv_three_digit")
              /\ ThreeDigitMatched =>
                    /\ detection.metadata.season_number = DigitValue[stem[first]]
                    /\ detection.metadata.episode_number =
                          10 * DigitValue[stem[first + 1]] + DigitValue[stem[first + 2]]

\* "Show.720p.305.mkv": the first run is rejected by the resolution guard, a
\* later run would pass both guards, and the strategy did not match
C30_Witness ==
    LET stem == Stem(source)
        runs == IsolatedRuns(stem)
    IN  /\ ThreeDigitTried
        /\ dpc = "returned"
        /\ ~ThreeDigitMatched
        /\ \E i, j \in runs :
              /\ \A k \in runs : i <= k
              /\ IsResolutionRun(stem, i)
              /\ i < j /\ ~IsCodecRun(stem, j) /\ ~IsResolutionRun(stem, j)

=============================================================================
